---- MODULE Spec2Model ----
(***************************************************************************)
(* A model of the testdj lobby state machine (package dj and the HTTP      *)
(* handlers of package service): the video queue, the completion timer,    *)
(* the skip and mute votes, the per-lobby timers and the idle sweep.       *)
(*                                                                         *)
(* Time is in seconds.  A section of code that runs under the lobby mutex  *)
(* is one atomic step; code that runs outside the mutex (the timer-driven  *)
(* PickNextVideo, the gaps between the checks of a handler) is split at    *)
(* the points where another goroutine can interleave.                      *)
(***************************************************************************)
EXTENDS Integers, Sequences, FiniteSets, TLC

----------------------------------------------------------------------------
\* Bounds of the model.

\* user identities 1..MaxUsers (each with its own IP and session)
MaxUsers == 3
\* video ids 1..MaxVideoIds
MaxVideoIds == 3
\* how many requests of one handler can be in flight
MaxReqs == 2
\* requests served in a run
MaxCalls == 3
\* the last instant (seconds) of the runs of SpecSkip
HorizonSkip == 60
\* the last instant (seconds) of the runs of SpecQueue
HorizonQueue == 60
\* the largest per-user queue cap of the lobbies of SpecQueue
MaxQueueLimit == 2
\* the longest time (seconds) that passes in one step of SpecHistory and
\* SpecExpiry
HoursStep == 1785
\* the last instant (seconds) of the runs of SpecMute
HorizonMute == 60
\* the lobby is followed for HorizonCooldown seconds, in steps of at most CooldownStep
HorizonCooldown == 340
CooldownStep == 100
\* requests come from the addresses 1..MaxIPs
MaxIPs == 2
\* the lobby codes are MaxLobbies + SpareCodes in number
SpareCodes == 2
\* create-lobby and join requests in a run of SpecFull and of SpecIdentity
MaxCreates == 2
\* the addresses the join requests of SpecNames come from
MaxJoiners == 3
\* the last instant (seconds) of the runs of SpecIdentity
HorizonIdentity == 40
\* the longest time (seconds) that passes in one step of SpecIdentity
IdentityStep == 20

----------------------------------------------------------------------------
\* Program constants (seconds).

VoteTimeout == 30
ExpiryWindow == 3600
ReplayCooldown == 3600
MuteDuration == 600
MuteVoteCooldown == 300
IdleTimeout == 35
UserCleanupPeriod == 10
VideoCleanupPeriod == 60
MuteSweepPeriod == 5
MaxVideoDuration == 600
MinSkipYes == 2
LobbyQueueCap == 100
MaxUserQueueLimit == 20
DefaultUserQueueLimit == 5
MaxLobbies == 100

\* a stopped timer (time.Timer.Stop) has no deadline
Stopped == -1
\* the zero time.Time{}
ZeroTime == -1

UserIDs == 1..MaxUsers
VideoIDs == 1..MaxVideoIds

\* User.IP of an identity: every identity of the model has its own address
IPOf(u) == u

\* the duration fetchVideoMeta returns for a video id: one to ten minutes
DurationOf(v) == 60 * (((v - 1) % 10) + 1)

\* the nil *Video
NoVideo == [id |-> 0, sub |-> 0, dur |-> 0, WasVoted |-> FALSE, WasSkipped |-> FALSE]

\* &dj.Video{ID, SubmitterID, Duration}
NewVideo(v, u) == [id |-> v, sub |-> u, dur |-> DurationOf(v), WasVoted |-> FALSE, WasSkipped |-> FALSE]

\* VoteSkipStatus / VoteMuteStatus with no vote in progress
NoVoteSkip == [Active |-> FALSE, VideoID |-> 0, StartedAt |-> ZeroTime, YesVotes |-> {}, NoVotes |-> {}]

NoVoteMute == [Active |-> FALSE, TargetID |-> 0, Initiator |-> 0, StartedAt |-> ZeroTime, YesVotes |-> {}, NoVotes |-> {}]

\* no message broadcast
NoEvent == <<>>

----------------------------------------------------------------------------
\* safemap operations on a map held as a function over its key set.

MapSet(f, k, v) == [x \in (DOMAIN f) \cup {k} |-> IF x = k THEN v ELSE f[x]]

MapDelete(f, k) == [x \in (DOMAIN f) \ {k} |-> f[x]]

MapExists(f, k) == k \in DOMAIN f

EmptyMap == [x \in {} |-> 0]

Min(S) == CHOOSE x \in S : \A y \in S : x <= y

Max(S) == CHOOSE x \in S : \A y \in S : x >= y

RemoveAt(s, i) == [j \in 1..(Len(s) - 1) |-> IF j < i THEN s[j] ELSE s[j + 1]]

----------------------------------------------------------------------------
VARIABLES
  now,      \* the wall clock, time.Now()
  l,        \* the Lobby: its fields, its timers, the message the last step broadcast
  m,        \* the LobbyManager: Lobbies, UsersByIP, UsersBySessionID
  user,     \* the *User objects: MutedUntil, LastActivity (shared by manager and lobby)
  minder,   \* the lobby's timerMinder goroutine: "running", in Expire ("expiring",
            \* "removing"), leaving its loop ("stopping"), or "stopped"
  pick,     \* the PickNextVideo goroutine timerMinder started (it takes no lock)
  calc,     \* the CalcVoteSkipResult / CalcVoteMuteResult calls waiting for the lobby mutex
  addReq,   \* HandleAddVideo requests in flight: [pc, user, vid]
  muteReq,  \* HandleVoteMuteStart requests in flight: [pc, user, target]
  skipReq,  \* HandleVoteSkipStart requests in flight: the users that passed its checks
  joinReq,  \* HandleJoinLobby requests in flight: the users added and not yet touching
  fault,    \* "none", "wedged" (lobby mutex never released), "crashed" (process down)
  resp,     \* the response the last step wrote, if it completed a request
  calls,    \* the number of requests the server has taken
  sweep,    \* the CleanupMuteExpirations goroutine timerMinder started (it takes no lock)
  reg       \* the registry seen object by object: the manager's three maps, the
            \* Lobby and User objects they point to, the requests that work on them

vars == <<now, l, m, user, minder, pick, calc, addReq, muteReq, skipReq, fault, resp, calls, joinReq, sweep, reg>>

NoResp == [op |-> "", status |-> ""]

\* the response a handler writes
Resp(op, status) == [op |-> op, status |-> status]

----------------------------------------------------------------------------
\* The Lobby's methods, as functions from a lobby value to a lobby value.

\* l.Lock() and l.Unlock(): the lobby's mutex.  A section under the mutex is
\* one step of the model, so the mutex is free in every state between steps.
Lock(lob) == [lob EXCEPT !.mu = "held"]
Unlock(lob) == [lob EXCEPT !.mu = "free"]

\* Lobby.Broadcast: the message goes to every member with a live stream; the
\* model keeps the messages of one step, in the order sent, and with each
\* whether the lobby's mutex was held while it was sent
Broadcast(lob, event, data) ==
  [lob EXCEPT !.sent = Append(@, [event |-> event, data |-> data,
                                  locked |-> lob.mu = "held"])]

\* the message is among those the last step broadcast
Sent(lob, event, data) ==
  \E i \in DOMAIN lob.sent : lob.sent[i].event = event /\ lob.sent[i].data = data

\* Lobby.Touch
Touch(lob) ==
  [lob EXCEPT !.ExpiresAt = now + ExpiryWindow, !.expiryTimer = now + ExpiryWindow]

\* PickNextVideo, lines 350-363: stop the completion timer, cancel an active skip vote
PickStop(lob) ==
  LET a == [lob EXCEPT !.nextTimer = Stopped]
  IN  IF a.VoteSkip.Active
        THEN [a EXCEPT !.voteSkipTimer = Stopped, !.VoteSkip = NoVoteSkip]
        ELSE a

\* the indices PickNextVideo may select: 1 in linear mode, any in shuffle mode
\* (0 stands for "the queue is empty")
PickIndices(lob) ==
  IF Len(lob.Videos) = 0 THEN {0}
  ELSE IF lob.Mode = "shuffle" THEN 1..Len(lob.Videos) ELSE {1}

\* PickNextVideo, lines 365-381: the selected entry (NoVideo when the queue is empty)
PickSelected(lob, idx) == IF Len(lob.Videos) = 0 THEN NoVideo ELSE lob.Videos[idx]

\* PickNextVideo, lines 377-381: take the entry out of the queue, record it as played
PickRemove(lob, idx) ==
  IF Len(lob.Videos) = 0 THEN lob
  ELSE [lob EXCEPT !.Videos = RemoveAt(@, idx),
                   !.PlayedVideos = MapSet(@, lob.Videos[idx].id, now + ReplayCooldown)]

\* an empty branch that arms the completion timer for a nil video's duration
PickSetEmptyArming(lob) ==
  [Broadcast([lob EXCEPT !.CurrentVideo = NoVideo, !.prev = lob.CurrentVideo],
             "video_update", "")
     EXCEPT !.nextTimer = now + NoVideo.dur]

\* PickNextVideo, lines 366-369: the queue was empty
PickSetEmpty(lob) ==
  Broadcast([lob EXCEPT !.CurrentVideo = NoVideo, !.prev = lob.CurrentVideo],
            "video_update", "")

\* PickNextVideo, lines 383-397: make the selected entry current, announce it and
\* arm the completion timer for its duration
PickSetNext(lob, next) ==
  [Broadcast([lob EXCEPT !.CurrentVideo = next, !.VideoStart = now,
                          !.prev = lob.CurrentVideo],
             "video_update", "url")
     EXCEPT !.nextTimer = now + next.dur]

\* PickNextVideo, lines 365-397
PickSet(lob, next) == IF next = NoVideo THEN PickSetEmpty(lob) ELSE PickSetNext(lob, next)

\* PickNextVideo as one step (its callers that hold the lobby mutex)
PickNextVideo(lob, idx) ==
  LET a == PickStop(lob)
  IN  PickSet(PickRemove(a, idx), PickSelected(a, idx))

\* Lobby.CheckVideoQueued
CheckVideoQueued(lob, v) == \E i \in 1..Len(lob.Videos) : lob.Videos[i].id = v

\* the number of queue entries a user submitted
UserVideoCount(lob, u) == Cardinality({i \in 1..Len(lob.Videos) : lob.Videos[i].sub = u})

\* Lobby.CheckUserVideoLimit
CheckUserVideoLimit(lob, u) == UserVideoCount(lob, u) >= lob.UserQueueLimit

\* Lobby.AddVideo
AddVideo(lob, video, idx) ==
  LET a == [Lock(lob) EXCEPT !.Videos = Append(@, video)]
  IN  Unlock(Touch(IF a.CurrentVideo = NoVideo
                     THEN PickNextVideo(a, idx)
                     ELSE Broadcast(a, "playlist_update", "")))

\* Lobby.AddUser: the member indexes
AddUser(lob, u) ==
  Broadcast([lob EXCEPT !.Users = @ \cup {u}, !.UsersBySession = @ \cup {u}],
            "users_update", "")

\* Lobby.RemoveUser
RemoveUser(lob, u) ==
  IF u \in lob.Users
    THEN Broadcast([lob EXCEPT !.Users = @ \ {u}], "users_update", "")
    ELSE lob

----------------------------------------------------------------------------
\* The skip vote.

\* StartVoteSkip's guard
CanStartVoteSkip(lob) == ~lob.VoteSkip.Active /\ lob.CurrentVideo # NoVideo

\* Lobby.StartVoteSkip, lines 32-46: the whole of it under the mutex
StartVoteSkip(lob, u) ==
  Unlock([Broadcast([Lock(lob) EXCEPT !.VoteSkip = [@ EXCEPT !.Active = TRUE,
                                                !.VideoID = lob.CurrentVideo.id,
                                                !.YesVotes = @ \cup {u},
                                                !.StartedAt = now]],
                    "vote_skip_update", "")
            EXCEPT !.voteSkipTimer = now + VoteTimeout])

\* the guard of RecordSkipVote and CalcVoteSkipResult dereferences CurrentVideo
SkipGuardPanics(lob) == lob.VoteSkip.Active /\ lob.CurrentVideo = NoVideo

\* the guard of RecordSkipVote and CalcVoteSkipResult: a vote on the current video
SkipVoteCurrent(lob) ==
  lob.VoteSkip.Active /\ lob.VoteSkip.VideoID = lob.CurrentVideo.id

\* yes/no bookkeeping of RecordSkipVote and RecordMuteVote
CastVote(vote, u, who) ==
  IF who = "yes"
    THEN [vote EXCEPT !.YesVotes = @ \cup {u}, !.NoVotes = @ \ {u}]
    ELSE [vote EXCEPT !.NoVotes = @ \cup {u}, !.YesVotes = @ \ {u}]

\* RecordSkipVote, line 140: the yes-votes that trigger early resolution
SkipQuorum(lob) == (Cardinality(lob.Users) + 1) \div 2

\* RecordSkipVote, lines 130-136
RecordSkipVote(lob, u, who) == [lob EXCEPT !.VoteSkip = CastVote(@, u, who)]

\* RecordSkipVote, line 140
SkipQuorumReached(lob) == Cardinality(lob.VoteSkip.YesVotes) >= SkipQuorum(lob)

\* Lobby.BroadcastVoteSkipStatus
BroadcastVoteSkipStatus(lob) ==
  IF lob.VoteSkip.Active
    THEN Broadcast(lob, "vote_skip_update", "")
    ELSE Broadcast(lob, "vote_skip_end", "")

\* a majority rule without the minimum of two yes-votes
SkipSucceededAnyMajority(lob) ==
  Cardinality(lob.VoteSkip.YesVotes) > Cardinality(lob.VoteSkip.NoVotes)

\* CalcVoteSkipResult, line 178
SkipSucceeded(lob) ==
  /\ Cardinality(lob.VoteSkip.YesVotes) >= MinSkipYes
  /\ Cardinality(lob.VoteSkip.YesVotes) > Cardinality(lob.VoteSkip.NoVotes)

\* an EndVoteSkip that advances the queue whatever the outcome
EndVoteSkipAlwaysPicks(lob, succeeded, idx) ==
  LET a == [lob EXCEPT !.voteSkipTimer = Stopped]
      b == IF a.CurrentVideo = NoVideo THEN a
           ELSE PickNextVideo([a EXCEPT !.PlayedVideos =
                                 MapSet(@, a.CurrentVideo.id, now + ReplayCooldown)], idx)
  IN  Broadcast([b EXCEPT !.VoteSkip = NoVoteSkip], "vote_skip_end",
                IF succeeded THEN "passed" ELSE "failed")

\* Lobby.EndVoteSkip
EndVoteSkip(lob, succeeded, idx) ==
  LET a == [lob EXCEPT !.voteSkipTimer = Stopped]
      b == IF a.CurrentVideo = NoVideo THEN a
           ELSE IF succeeded
             THEN PickNextVideo([a EXCEPT !.PlayedVideos =
                                   MapSet(@, a.CurrentVideo.id, now + ReplayCooldown)], idx)
             ELSE [a EXCEPT !.CurrentVideo.WasVoted = TRUE]
  IN  Broadcast([b EXCEPT !.VoteSkip = NoVoteSkip], "vote_skip_end",
                IF succeeded THEN "passed" ELSE "failed")

\* CalcVoteSkipResult, lines 170-182: EndVoteSkip under the mutex
CalcVoteSkipResult(lob, idx) == Unlock(EndVoteSkip(Lock(lob), SkipSucceeded(lob), idx))

----------------------------------------------------------------------------
\* The mute vote.

\* a lookup that takes any user the manager knows for a member
MuteTargetValidAny(lob, target) == target \in UserIDs

\* StartVoteMute, lines 52-65: the target is a member
MuteTargetValid(lob, target) == target \in lob.Users

\* StartVoteMute, lines 69-81: the section under the lobby mutex
StartVoteMute(lob, u, target) ==
  LET a == IF IPOf(u) # lob.CreatorIP
             THEN [lob EXCEPT !.MuteCooldownsByIP = MapSet(@, IPOf(u), now + MuteVoteCooldown)]
             ELSE lob
  IN  [a EXCEPT !.VoteMute = [@ EXCEPT !.Active = TRUE,
                                       !.TargetID = target,
                                       !.Initiator = u,
                                       !.YesVotes = @ \cup {u},
                                       !.StartedAt = now],
                !.startedMute = MapSet(@, IPOf(u), now)]

\* StartVoteMute, lines 85-86: after the mutex is released
StartVoteMuteAnnounce(lob) ==
  [Broadcast(lob, "vote_mute_update", "") EXCEPT !.voteMuteTimer = now + VoteTimeout]

\* HandleVoteMuteStart, lines 699-705
OnMuteCooldown(lob, u) ==
  MapExists(lob.MuteCooldownsByIP, IPOf(u)) /\ now < lob.MuteCooldownsByIP[IPOf(u)]

\* RecordMuteVote, lines 100-106
RecordMuteVote(lob, u, who) == [lob EXCEPT !.VoteMute = CastVote(@, u, who)]

\* RecordMuteVote, line 110
MuteQuorumReached(lob) ==
  Cardinality(lob.VoteMute.YesVotes) > (Cardinality(lob.Users) + 2) \div 2

\* Lobby.BroadcastVoteMuteStatus
BroadcastVoteMuteStatus(lob) ==
  IF lob.VoteMute.Active
    THEN Broadcast(lob, "vote_mute_update", "")
    ELSE Broadcast(lob, "vote_mute_end", "")

\* CalcVoteMuteResult, line 223
MuteSucceeded(lob) ==
  Cardinality(lob.VoteMute.YesVotes) >= (Cardinality(lob.Users) + 1) \div 2

\* EndVoteMute, line 235: the target is still a member
MuteApplies(lob, succeeded) == succeeded /\ lob.VoteMute.TargetID \in lob.Users

\* Lobby.EndVoteMute: the lobby
EndVoteMute(lob, succeeded) ==
  LET a == [lob EXCEPT !.voteMuteTimer = Stopped]
      b == IF MuteApplies(a, succeeded)
             THEN [a EXCEPT !.MutesByIP = MapSet(@, IPOf(a.VoteMute.TargetID), now + MuteDuration)]
             ELSE a
  IN  Broadcast([b EXCEPT !.VoteMute = NoVoteMute], "vote_mute_end",
                IF succeeded THEN "passed" ELSE "failed")

\* an EndVoteMute that records the mute by IP only
EndVoteMuteUserUnset(usr, lob, succeeded) == usr

\* Lobby.EndVoteMute, line 237: the target's User object
EndVoteMuteUser(usr, lob, succeeded) ==
  IF MuteApplies(lob, succeeded)
    THEN [usr EXCEPT ![lob.VoteMute.TargetID].MutedUntil = now + MuteDuration]
    ELSE usr

----------------------------------------------------------------------------
\* Construction.

\* LobbyManager.NewLobby: the Lobby value (its timers: the three flushed timers
\* are not armed, the expiry timer and the tickers are).  Two fields are the
\* model's: sent, the messages of the last step, and prev, the Video object that
\* CurrentVideo pointed to before the last PickNextVideo replaced it.  A third,
\* startedMute, keeps for each IP the time StartVoteMute last opened a vote
\* for it.  mu is the embedded sync.Mutex.
NewLobby(mode, maxQueue, creatorIP) ==
  [ Mode |-> mode, CreatorIP |-> creatorIP, UserQueueLimit |-> maxQueue,
    VideoStart |-> ZeroTime, ExpiresAt |-> now + ExpiryWindow,
    Users |-> {}, UsersBySession |-> {},
    MutesByIP |-> EmptyMap, MuteCooldownsByIP |-> EmptyMap,
    Videos |-> <<>>, CurrentVideo |-> NoVideo, PlayedVideos |-> EmptyMap,
    VoteSkip |-> NoVoteSkip, VoteMute |-> NoVoteMute,
    nextTimer |-> Stopped, voteSkipTimer |-> Stopped, voteMuteTimer |-> Stopped,
    expiryTimer |-> now + ExpiryWindow,
    videoCleanupTicker |-> now + VideoCleanupPeriod,
    muteExpiryTicker |-> now + MuteSweepPeriod,
    mu |-> "free",
    sent |-> NoEvent, prev |-> NoVideo, startedMute |-> EmptyMap ]

\* LobbyManager.NewUser: the User object
NewUser == [MutedUntil |-> ZeroTime, LastActivity |-> now]

\* a manager with no lobby and no user (NewLobbyManager), no request in flight
NoReg ==
  [ Lobbies |-> EmptyMap, UsersByIP |-> EmptyMap, UsersBySessionID |-> EmptyMap,
    lob |-> <<>>, usr |-> <<>>, req |-> {},
    userCleanupTicker |-> UserCleanupPeriod ]

\* the goroutine timerMinder starts for CleanupMuteExpirations: not running
NoSweep == [pc |-> "idle", cds |-> {}, mutes |-> {}]

\* the goroutine timerMinder starts for PickNextVideo: not running
NoPick == [pc |-> "idle", next |-> NoVideo]

NoCalc == [skip |-> {}, mute |-> {}]

\* a lobby created at this instant by user 1 (mode, per-user cap), which the
\* users of `members` joined and to which the videos of `adds` (pairs of video id
\* and submitter) were then added one after the other: the first of them is
\* playing.  What these steps broadcast is past.
LobbyWithQueue(mode, maxQueue, members, adds) ==
  LET last == Max(members)
      Join[k \in 0..last] ==
        IF k = 0 THEN NewLobby(mode, maxQueue, IPOf(1))
        ELSE IF k \in members THEN AddUser(Join[k - 1], k) ELSE Join[k - 1]
      Add[k \in 0..Len(adds)] ==
        IF k = 0 THEN Join[last]
        ELSE AddVideo(Add[k - 1], NewVideo(adds[k][1], adds[k][2]), 1)
  IN  [Add[Len(adds)] EXCEPT !.sent = NoEvent]

\* the same, with user 1 the submitter of every video
LobbyWith(mode, maxQueue, members, vids) ==
  LobbyWithQueue(mode, maxQueue, members, [k \in 1..Len(vids) |-> <<vids[k], 1>>])

\* the manager with the members registered
ManagerWith(members) ==
  [ Lobbies |-> {1}, UsersByIP |-> members, UsersBySessionID |-> members,
    userCleanupTicker |-> now + UserCleanupPeriod ]

\* everything but the lobby, in the state right after the lobby was set up
InitRest(members) ==
  /\ m = ManagerWith(members)
  /\ user = [u \in UserIDs \cup members |-> NewUser]
  /\ minder = "running"
  /\ pick = NoPick
  /\ calc = NoCalc
  /\ addReq = {}
  /\ muteReq = {}
  /\ skipReq = {}
  /\ joinReq = {}
  /\ fault = "none"
  /\ resp = NoResp
  /\ calls = 0
  /\ sweep = NoSweep
  /\ reg = NoReg

\* the process is running
Up == fault # "crashed"

\* the lobby mutex can be acquired
CanLock == fault = "none"

----------------------------------------------------------------------------
\* Timers and the goroutines timerMinder starts.
\*
\* l.sent and resp describe the step just taken: the messages it broadcast
\* and the response it wrote.  Every step starts from L, the lobby with nothing
\* broadcast yet, and a step that answers no request leaves resp = NoResp.

L == [l EXCEPT !.sent = NoEvent]

\* an armed timer whose deadline has come
Due(t) == t # Stopped /\ t <= now

\* timerMinder, case <-l.nextTimer.C: go l.PickNextVideo()
NextTimerFires ==
  /\ Up /\ minder = "running" /\ Due(l.nextTimer) /\ pick.pc = "idle"
  /\ l' = [L EXCEPT !.nextTimer = Stopped]
  /\ pick' = [pc |-> "begin", next |-> NoVideo]
  /\ resp' = NoResp
  /\ UNCHANGED <<reg, sweep, calls, now, m, user, minder, calc, addReq, muteReq, skipReq, fault, joinReq>>

\* PickNextVideo without the lobby mutex, lines 350-381: stop the timer, cancel the
\* vote, test the queue and take the selected entry out of it
PickNextVideoBegin ==
  /\ Up /\ pick.pc = "begin"
  /\ \E idx \in PickIndices(l) :
       /\ l' = PickRemove(PickStop(L), idx)
       /\ pick' = [pc |-> "set", next |-> PickSelected(l, idx)]
  /\ resp' = NoResp
  /\ UNCHANGED <<reg, sweep, calls, now, m, user, minder, calc, addReq, muteReq, skipReq, fault, joinReq>>

\* PickNextVideo without the lobby mutex, lines 366-369 and 383-397: write
\* CurrentVideo, broadcast, arm the timer
PickNextVideoSet ==
  /\ Up /\ pick.pc = "set"
  /\ l' = PickSet(L, pick.next)
  /\ pick' = NoPick
  /\ resp' = NoResp
  /\ UNCHANGED <<reg, sweep, calls, now, m, user, minder, calc, addReq, muteReq, skipReq, fault, joinReq>>

\* timerMinder, case <-l.voteSkipTimer.C: go l.CalcVoteSkipResult()
VoteSkipTimerFires ==
  /\ Up /\ minder = "running" /\ Due(l.voteSkipTimer) /\ "timer" \notin calc.skip
  /\ l' = [L EXCEPT !.voteSkipTimer = Stopped]
  /\ calc' = [calc EXCEPT !.skip = @ \cup {"timer"}]
  /\ resp' = NoResp
  /\ UNCHANGED <<reg, sweep, calls, now, m, user, minder, pick, addReq, muteReq, skipReq, fault, joinReq>>

\* Lobby.CalcVoteSkipResult, called by the timer ("timer") or by RecordSkipVote
\* after it released the mutex ("early").  A nil CurrentVideo under an active vote
\* panics: in the timer's goroutine that ends the process, in a request handler
\* the server recovers (the deferred Unlock has run).
RunCalcVoteSkipResult(src) ==
  /\ Up /\ CanLock /\ src \in calc.skip
  /\ calc' = [calc EXCEPT !.skip = @ \ {src}]
  /\ IF SkipGuardPanics(l)
       THEN /\ fault' = IF src = "timer" THEN "crashed" ELSE fault
            /\ resp' = IF src = "early" THEN Resp("skip_vote", "panic") ELSE NoResp
            /\ l' = L
     ELSE IF ~SkipVoteCurrent(l)
       THEN /\ resp' = IF src = "early" THEN Resp("skip_vote", "conflict") ELSE NoResp
            /\ l' = L
            /\ fault' = fault
     ELSE /\ \E idx \in PickIndices(l) : l' = CalcVoteSkipResult(L, idx)
          /\ resp' = IF src = "early" THEN Resp("skip_vote", "created") ELSE NoResp
          /\ fault' = fault
  /\ UNCHANGED <<reg, sweep, calls, now, m, user, minder, pick, addReq, muteReq, skipReq, joinReq>>

----------------------------------------------------------------------------
\* The skip-vote handlers.

\* InjectSession: the request carries the session of a registered user, whose
\* lobby is in the registry
HasSession(u) == u \in m.UsersBySessionID /\ 1 \in m.Lobbies

\* the server takes one more request: a run serves MaxCalls of them
Served == calls < MaxCalls /\ calls' = calls + 1

\* HandleVoteSkipStart, lines 735-747: the reason the request is refused, if any
SkipStartRefusal(lob) ==
  IF lob.CurrentVideo = NoVideo THEN "no current video"
  ELSE IF lob.CurrentVideo.WasVoted THEN "already survived"
  ELSE ""

\* HandleVoteSkipStart, lines 734-749: the checks under the lobby mutex
HandleVoteSkipStartCheck(u) ==
  /\ Up /\ CanLock /\ HasSession(u) /\ Served
  /\ u \notin skipReq /\ Cardinality(skipReq) < MaxReqs
  /\ IF SkipStartRefusal(l) # ""
       THEN resp' = Resp("skip_start", SkipStartRefusal(l)) /\ skipReq' = skipReq
       ELSE resp' = NoResp /\ skipReq' = skipReq \cup {u}
  /\ l' = L
  /\ UNCHANGED <<reg, sweep, now, m, user, minder, pick, calc, addReq, muteReq, fault, joinReq>>

\* HandleVoteSkipStart, lines 752-753: the lone member's skip marks the video
MarkSkipped(lob) == [lob EXCEPT !.CurrentVideo.WasSkipped = TRUE]

\* HandleVoteSkipStart, line 751
FewerThanTwo(lob) == Cardinality(lob.Users) < 2

\* HandleVoteSkipStart, lines 751-767: with fewer than two members the video is
\* skipped at once (under the mutex, which a panic on a nil CurrentVideo never
\* releases); otherwise StartVoteSkip
HandleVoteSkipStartAct(u) ==
  /\ Up /\ CanLock /\ u \in skipReq
  /\ skipReq' = skipReq \ {u}
  /\ IF FewerThanTwo(l)
       THEN IF l.CurrentVideo = NoVideo
              THEN /\ fault' = "wedged"
                   /\ resp' = Resp("skip_start", "panic")
                   /\ l' = L
              ELSE /\ \E idx \in PickIndices(l) : l' = Unlock(PickNextVideo(MarkSkipped(Lock(L)), idx))
                   /\ resp' = Resp("skip_start", "skipped")
                   /\ fault' = fault
     ELSE IF CanStartVoteSkip(l)
       THEN /\ l' = StartVoteSkip(L, u)
            /\ resp' = Resp("skip_start", "created")
            /\ fault' = fault
     ELSE /\ resp' = Resp("skip_start", "conflict")
          /\ l' = L
          /\ fault' = fault
  /\ UNCHANGED <<reg, sweep, calls, now, m, user, minder, pick, calc, addReq, muteReq, joinReq>>

\* HandleVoteSkipSubmit / Lobby.RecordSkipVote, lines 124-148: reaching the quorum
\* releases the mutex and leaves the call of CalcVoteSkipResult to follow (the
\* model keeps one such call waiting; a second one joins it)
HandleVoteSkipSubmit(u, who) ==
  /\ Up /\ CanLock /\ HasSession(u) /\ Served
  /\ IF SkipGuardPanics(l)
       THEN /\ fault' = "wedged"
            /\ resp' = Resp("skip_vote", "panic")
            /\ l' = L
            /\ calc' = calc
     ELSE IF ~SkipVoteCurrent(l)
       THEN /\ resp' = Resp("skip_vote", "conflict")
            /\ l' = L
            /\ UNCHANGED <<calc, fault, joinReq>>
     ELSE IF SkipQuorumReached(RecordSkipVote(l, u, who))
       THEN /\ l' = RecordSkipVote(L, u, who)
            /\ calc' = [calc EXCEPT !.skip = @ \cup {"early"}]
            /\ resp' = NoResp
            /\ fault' = fault
     ELSE /\ l' = Unlock(BroadcastVoteSkipStatus(RecordSkipVote(Lock(L), u, who)))
          /\ resp' = Resp("skip_vote", "created")
          /\ UNCHANGED <<calc, fault, joinReq>>
  /\ UNCHANGED <<reg, sweep, now, m, user, minder, pick, addReq, muteReq, skipReq, joinReq>>

----------------------------------------------------------------------------
\* The mute-vote handlers.

\* HandleVoteMuteStart, lines 683-697: the reason the checks made under the lobby
\* mutex refuse the request, if any
MuteStartRefusal(lob, u, target) ==
  IF lob.VoteMute.Active THEN "conflict"
  ELSE IF u = target THEN "forbidden"
  ELSE ""

\* HandleVoteMuteStart, lines 683-697: the checks under the lobby mutex
HandleVoteMuteStartCheck(u, target) ==
  /\ Up /\ CanLock /\ HasSession(u) /\ Served
  /\ \A q \in muteReq : q.user # u
  /\ Cardinality(muteReq) < MaxReqs
  /\ IF MuteStartRefusal(l, u, target) # ""
       THEN /\ resp' = Resp("mute_start", MuteStartRefusal(l, u, target))
            /\ muteReq' = muteReq
       ELSE /\ resp' = NoResp
            /\ muteReq' = muteReq \cup {[pc |-> "start", user |-> u, target |-> target]}
  /\ l' = L
  /\ UNCHANGED <<reg, sweep, now, m, user, minder, pick, calc, addReq, skipReq, fault, joinReq>>

\* HandleVoteMuteStart, lines 699-711, and StartVoteMute up to its Unlock: the
\* cooldown, the target, then the vote is written with no second look at Active
HandleVoteMuteStartAct(q) ==
  /\ Up /\ CanLock /\ q \in muteReq /\ q.pc = "start"
  /\ IF OnMuteCooldown(l, q.user)
       THEN /\ resp' = Resp("mute_start", "cooldown")
            /\ muteReq' = muteReq \ {q}
            /\ l' = L
     ELSE IF ~MuteTargetValid(l, q.target)
       THEN /\ resp' = Resp("mute_start", "bad request")
            /\ muteReq' = muteReq \ {q}
            /\ l' = L
     ELSE /\ l' = StartVoteMute(L, q.user, q.target)
          /\ muteReq' = (muteReq \ {q}) \cup {[q EXCEPT !.pc = "announce"]}
          /\ resp' = NoResp
  /\ UNCHANGED <<reg, sweep, calls, now, m, user, minder, pick, calc, addReq, skipReq, fault, joinReq>>

\* StartVoteMute, lines 85-88, and HandleVoteMuteStart, line 713
HandleVoteMuteStartAnnounce(q) ==
  /\ Up /\ q \in muteReq /\ q.pc = "announce"
  /\ l' = StartVoteMuteAnnounce(L)
  /\ muteReq' = muteReq \ {q}
  /\ resp' = Resp("mute_start", "created")
  /\ UNCHANGED <<reg, sweep, calls, now, m, user, minder, pick, calc, addReq, skipReq, fault, joinReq>>

\* HandleVoteMuteSubmit / Lobby.RecordMuteVote: reaching the quorum releases the
\* mutex and leaves the call of CalcVoteMuteResult to follow
HandleVoteMuteSubmit(u, who) ==
  /\ Up /\ CanLock /\ HasSession(u) /\ Served
  /\ IF ~l.VoteMute.Active
       THEN /\ resp' = Resp("mute_vote", "conflict")
            /\ l' = L
            /\ calc' = calc
     ELSE IF MuteQuorumReached(RecordMuteVote(l, u, who))
       THEN /\ l' = RecordMuteVote(L, u, who)
            /\ calc' = [calc EXCEPT !.mute = @ \cup {"early"}]
            /\ resp' = NoResp
     ELSE /\ l' = Unlock(BroadcastVoteMuteStatus(RecordMuteVote(Lock(L), u, who)))
          /\ resp' = Resp("mute_vote", "created")
          /\ calc' = calc
  /\ UNCHANGED <<reg, sweep, now, m, user, minder, pick, addReq, muteReq, skipReq, fault, joinReq>>

\* timerMinder, case <-l.voteMuteTimer.C: go l.CalcVoteMuteResult()
VoteMuteTimerFires ==
  /\ Up /\ minder = "running" /\ Due(l.voteMuteTimer) /\ "timer" \notin calc.mute
  /\ l' = [L EXCEPT !.voteMuteTimer = Stopped]
  /\ calc' = [calc EXCEPT !.mute = @ \cup {"timer"}]
  /\ resp' = NoResp
  /\ UNCHANGED <<reg, sweep, calls, now, m, user, minder, pick, addReq, muteReq, skipReq, fault, joinReq>>

\* Lobby.CalcVoteMuteResult, called by the timer ("timer") or by RecordMuteVote
\* after it released the mutex ("early")
RunCalcVoteMuteResult(src) ==
  /\ Up /\ CanLock /\ src \in calc.mute
  /\ calc' = [calc EXCEPT !.mute = @ \ {src}]
  /\ IF ~l.VoteMute.Active
       THEN /\ l' = L
            /\ user' = user
            /\ resp' = IF src = "early" THEN Resp("mute_vote", "conflict") ELSE NoResp
       ELSE /\ l' = Unlock(EndVoteMute(Lock(L), MuteSucceeded(l)))
            /\ user' = EndVoteMuteUser(user, l, MuteSucceeded(l))
            /\ resp' = IF src = "early" THEN Resp("mute_vote", "created") ELSE NoResp
  /\ UNCHANGED <<reg, sweep, calls, now, m, minder, pick, addReq, muteReq, skipReq, fault, joinReq>>

----------------------------------------------------------------------------
\* HandleAddVideo.  Its checks and Lobby.AddVideo are separate sections: the play
\* history is read with no lock, CheckVideoQueued, CheckUserVideoLimit and
\* AddVideo each take and release the lobby mutex.

\* HandleAddVideo, lines 546-551: the submitter is muted
Muted(u) == user[u].MutedUntil > now

\* HandleAddVideo, lines 546-565: a muted user is refused, otherwise the request
\* goes to fetch the video's metadata
HandleAddVideoBegin(u, v) ==
  /\ Up /\ HasSession(u) /\ Served
  /\ \A q \in addReq : ~(q.user = u /\ q.vid = v)
  /\ Cardinality(addReq) < MaxReqs
  /\ IF Muted(u)
       THEN resp' = Resp("add", "muted") /\ addReq' = addReq
       ELSE resp' = NoResp /\ addReq' = addReq \cup {[pc |-> "fetch", user |-> u, vid |-> v]}
  /\ l' = L
  /\ UNCHANGED <<reg, sweep, now, m, user, minder, pick, calc, muteReq, skipReq, fault, joinReq>>

\* HandleAddVideo, lines 582-592: the metadata has come; the duration, then the
\* play history, which is asked only whether it holds the id
HandleAddVideoPlayed(q) ==
  /\ Up /\ q \in addReq /\ q.pc = "fetch"
  /\ IF DurationOf(q.vid) > MaxVideoDuration
       THEN resp' = Resp("add", "too long") /\ addReq' = addReq \ {q}
     ELSE IF MapExists(l.PlayedVideos, q.vid)
       THEN resp' = Resp("add", "played") /\ addReq' = addReq \ {q}
     ELSE resp' = NoResp /\ addReq' = (addReq \ {q}) \cup {[q EXCEPT !.pc = "queued"]}
  /\ l' = L
  /\ UNCHANGED <<reg, sweep, calls, now, m, user, minder, pick, calc, muteReq, skipReq, fault, joinReq>>

\* HandleAddVideo, lines 594-598
HandleAddVideoQueued(q) ==
  /\ Up /\ CanLock /\ q \in addReq /\ q.pc = "queued"
  /\ IF CheckVideoQueued(l, q.vid)
       THEN resp' = Resp("add", "queued") /\ addReq' = addReq \ {q}
       ELSE resp' = NoResp /\ addReq' = (addReq \ {q}) \cup {[q EXCEPT !.pc = "limit"]}
  /\ l' = L
  /\ UNCHANGED <<reg, sweep, calls, now, m, user, minder, pick, calc, muteReq, skipReq, fault, joinReq>>

\* HandleAddVideo, lines 600-604
HandleAddVideoLimit(q) ==
  /\ Up /\ CanLock /\ q \in addReq /\ q.pc = "limit"
  /\ IF CheckUserVideoLimit(l, q.user)
       THEN resp' = Resp("add", "limit") /\ addReq' = addReq \ {q}
       ELSE resp' = NoResp /\ addReq' = (addReq \ {q}) \cup {[q EXCEPT !.pc = "add"]}
  /\ l' = L
  /\ UNCHANGED <<reg, sweep, calls, now, m, user, minder, pick, calc, muteReq, skipReq, fault, joinReq>>

\* HandleAddVideo, lines 606-616: Lobby.AddVideo
HandleAddVideoAdd(q) ==
  /\ Up /\ CanLock /\ q \in addReq /\ q.pc = "add"
  /\ \E idx \in 1..(Len(l.Videos) + 1) :
       /\ l.CurrentVideo = NoVideo =>
            idx \in PickIndices([l EXCEPT !.Videos = Append(@, NewVideo(q.vid, q.user))])
       /\ l.CurrentVideo # NoVideo => idx = 1
       /\ l' = AddVideo(L, NewVideo(q.vid, q.user), idx)
  /\ addReq' = addReq \ {q}
  /\ resp' = Resp("add", "created")
  /\ UNCHANGED <<reg, sweep, calls, now, m, user, minder, pick, calc, muteReq, skipReq, fault, joinReq>>

\* timerMinder, case <-l.videoCleanupTicker.C: Lobby.CleanupPlayedVideos drops the
\* history entries whose time has passed
CleanupPlayedVideos ==
  /\ Up /\ minder = "running" /\ Due(l.videoCleanupTicker)
  /\ l' = [L EXCEPT !.PlayedVideos =
                      [v \in {x \in DOMAIN @ : ~(now > @[x])} |-> @[v]],
                    !.videoCleanupTicker = @ + VideoCleanupPeriod]
  /\ resp' = NoResp
  /\ UNCHANGED <<reg, sweep, calls, now, m, user, minder, pick, calc, addReq, muteReq, skipReq, fault, joinReq>>

----------------------------------------------------------------------------
\* Joining, loading the lobby page, and the lobby's expiry.

\* an AddUser that does not look at MutesByIP
AddUserMuteNone(usr, lob, u) == usr

\* Lobby.AddUser, lines 190-192: a user whose IP is muted takes the mute over
AddUserMute(usr, lob, u) ==
  IF MapExists(lob.MutesByIP, IPOf(u))
    THEN [usr EXCEPT ![u].MutedUntil = lob.MutesByIP[IPOf(u)]]
    ELSE usr

\* HandleJoinLobby, lines 391-454, for a visitor the manager does not know (no
\* session, no user at the address): NewUser registers the identity, AddUser
\* makes it a member.  No lock is taken.
HandleJoinLobbyAdd(u) ==
  /\ Up /\ 1 \in m.Lobbies /\ u \notin m.UsersByIP /\ u \notin m.UsersBySessionID
  /\ Served
  /\ u \notin joinReq /\ Cardinality(joinReq) < MaxReqs
  /\ m' = [m EXCEPT !.UsersByIP = @ \cup {u}, !.UsersBySessionID = @ \cup {u}]
  /\ user' = AddUserMute([user EXCEPT ![u] = NewUser], l, u)
  /\ l' = AddUser(L, u)
  /\ joinReq' = joinReq \cup {u}
  /\ resp' = NoResp
  /\ UNCHANGED <<reg, sweep, now, minder, pick, calc, addReq, muteReq, skipReq, fault>>

\* HandleJoinLobby, lines 440-454, for a visitor from an address the manager
\* knows.  With the old user in the lobby's session index and its event stream
\* open (an input of the model) the visitor gets the error page.  Otherwise
\* CleanExistingSessions removes the old user from the lobby and from the
\* manager, NewUser registers a new User object for the address and AddUser
\* makes it a member.  No lock is taken.
HandleJoinLobbyAgain(u, streaming) ==
  /\ Up /\ 1 \in m.Lobbies /\ u \in m.UsersByIP
  /\ Served
  /\ u \notin joinReq /\ Cardinality(joinReq) < MaxReqs
  /\ IF u \in l.UsersBySession /\ streaming
       THEN /\ l' = L
            /\ user' = user
            /\ joinReq' = joinReq
            /\ resp' = Resp("join", "multiple devices")
       ELSE /\ l' = AddUser(RemoveUser(L, u), u)
            /\ user' = AddUserMute([user EXCEPT ![u] = NewUser], l, u)
            /\ joinReq' = joinReq \cup {u}
            /\ resp' = NoResp
  /\ m' = [m EXCEPT !.UsersByIP = (@ \ {u}) \cup {u},
                    !.UsersBySessionID = (@ \ {u}) \cup {u}]
  /\ UNCHANGED <<reg, sweep, now, minder, pick, calc, addReq, muteReq, skipReq, fault>>

\* HandleJoinLobby, lines 466-467: Touch, with no lock, and the redirect
HandleJoinLobbyTouch(u) ==
  /\ Up /\ u \in joinReq
  /\ l' = Touch(L)
  /\ joinReq' = joinReq \ {u}
  /\ resp' = Resp("join", "see other")
  /\ UNCHANGED <<reg, sweep, calls, now, m, user, minder, pick, calc, addReq, muteReq, skipReq, fault>>

\* HandleLobbyPage, under the lobby mutex: a user whose event stream is open
\* (an input of the model) gets the error page, anyone else touches the lobby
HandleLobbyPage(u, streaming) ==
  /\ Up /\ CanLock /\ HasSession(u) /\ Served
  /\ IF u \in m.UsersByIP /\ u \in l.UsersBySession /\ streaming
       THEN /\ l' = L
            /\ user' = user
            /\ resp' = Resp("page", "multiple devices")
       ELSE /\ l' = Touch(L)
            /\ user' = [user EXCEPT ![u].LastActivity = now]
            /\ resp' = Resp("page", "ok")
  /\ UNCHANGED <<reg, sweep, now, m, minder, pick, calc, addReq, muteReq, skipReq, fault, joinReq>>

\* timerMinder, case <-l.expiryTimer.C: the loop takes the timer's value and
\* calls Expire
ExpiryTimerFires ==
  /\ Up /\ minder = "running" /\ Due(l.expiryTimer)
  /\ l' = [L EXCEPT !.expiryTimer = Stopped]
  /\ minder' = "expiring"
  /\ resp' = NoResp
  /\ UNCHANGED <<reg, sweep, calls, now, m, user, pick, calc, addReq, muteReq, skipReq, fault, joinReq>>

\* Lobby.Expire, lines 153-160, with no lock: the members are told and cleared
Expire ==
  /\ Up /\ minder = "expiring"
  /\ l' = [Broadcast(L, "lobby_expired", "") EXCEPT !.Users = {}]
  /\ minder' = "removing"
  /\ resp' = NoResp
  /\ UNCHANGED <<reg, sweep, calls, now, m, user, pick, calc, addReq, muteReq, skipReq, fault, joinReq>>

\* LobbyManager.RemoveLobby, called by Expire: the lobby leaves the registry; the
\* identity maps are read, not changed
RemoveLobby ==
  /\ Up /\ minder = "removing"
  /\ m' = [m EXCEPT !.Lobbies = @ \ {1}]
  /\ l' = L
  /\ minder' = "stopping"
  /\ resp' = NoResp
  /\ UNCHANGED <<reg, sweep, calls, now, user, pick, calc, addReq, muteReq, skipReq, fault, joinReq>>

\* timerMinder, lines 281-285: out of the loop, it stops five of its six timers
MinderStops ==
  /\ Up /\ minder = "stopping"
  /\ l' = [L EXCEPT !.expiryTimer = Stopped, !.nextTimer = Stopped,
                    !.voteSkipTimer = Stopped, !.voteMuteTimer = Stopped,
                    !.videoCleanupTicker = Stopped]
  /\ minder' = "stopped"
  /\ resp' = NoResp
  /\ UNCHANGED <<reg, sweep, calls, now, m, user, pick, calc, addReq, muteReq, skipReq, fault, joinReq>>

----------------------------------------------------------------------------
\* Activity and the idle sweep.

\* HandleHeartbeat
HandleHeartbeat(u) ==
  /\ Up /\ HasSession(u) /\ Served /\ user[u].LastActivity # now
  /\ user' = [user EXCEPT ![u].LastActivity = now]
  /\ l' = L
  /\ resp' = Resp("heartbeat", "no content")
  /\ UNCHANGED <<reg, sweep, now, m, minder, pick, calc, addReq, muteReq, skipReq, fault, joinReq>>

\* HandleLogout: the closing page's beacon; the sweep removes the user ten
\* seconds later at the earliest
HandleLogout(u) ==
  /\ Up /\ HasSession(u) /\ Served /\ user[u].LastActivity # now - 25
  /\ user' = [user EXCEPT ![u].LastActivity = now - 25]
  /\ l' = L
  /\ resp' = Resp("logout", "no content")
  /\ UNCHANGED <<reg, sweep, now, m, minder, pick, calc, addReq, muteReq, skipReq, fault, joinReq>>

\* CleanupUsers, line 94: the registered users that timed out
TimedOut == {u \in m.UsersByIP : now - user[u].LastActivity > IdleTimeout}

\* CleanupUsers, lines 96-106: RemoveUser for each of them
RemoveUsers(lob, dead) ==
  IF lob.Users \cap dead = {} THEN lob
  ELSE Broadcast([lob EXCEPT !.Users = @ \ dead], "users_update", "")

\* LobbyManager.timerMinder, case <-m.userCleanupTicker.C: CleanupUsers
CleanupUsers ==
  /\ Up /\ Due(m.userCleanupTicker)
  /\ l' = IF 1 \in m.Lobbies THEN RemoveUsers(L, TimedOut) ELSE L
  /\ m' = [m EXCEPT !.UsersByIP = @ \ TimedOut,
                    !.UsersBySessionID = @ \ TimedOut,
                    !.userCleanupTicker = @ + UserCleanupPeriod]
  /\ resp' = NoResp
  /\ UNCHANGED <<reg, sweep, calls, now, user, minder, pick, calc, addReq, muteReq, skipReq, fault, joinReq>>

----------------------------------------------------------------------------
\* The clock.

\* a goroutine or a request handler is between two of its steps and needs
\* nothing but to be scheduled (a HandleAddVideo that waits for the video's
\* metadata is not one)
Midway ==
  \/ pick.pc # "idle"
  \/ joinReq # {}
  \/ \E q \in muteReq : q.pc = "announce"
  \/ sweep # NoSweep
  \/ minder \in {"expiring", "removing", "stopping"}

\* a goroutine or a request handler waits for the lobby mutex
AtLock ==
  \/ calc # NoCalc
  \/ skipReq # {}
  \/ \E q \in muteReq : q.pc = "start"
  \/ \E q \in addReq : q.pc # "fetch"

\* the firing of a ticker of the given period that is the first at or after t
TickerAt(ticker, period, t) ==
  IF ticker = Stopped \/ ticker >= t THEN ticker
  ELSE ticker + period * ((t - ticker + period - 1) \div period)

\* the first firing of videoCleanupTicker at which CleanupPlayedVideos finds an
\* entry to delete, if there is one: the firings before it change nothing and
\* are no steps of the model
SweepDeadline(lob) ==
  IF lob.videoCleanupTicker = Stopped \/ DOMAIN lob.PlayedVideos = {} THEN Stopped
  ELSE TickerAt(lob.videoCleanupTicker, VideoCleanupPeriod,
                Min({lob.PlayedVideos[v] : v \in DOMAIN lob.PlayedVideos}) + 1)

\* the keys of a time-valued map whose time lies before t
ExpiredKeys(f, t) == {k \in DOMAIN f : t > f[k]}

\* the first firing of muteExpiryTicker at which CleanupMuteExpirations finds an
\* entry to delete, if there is one: the firings before it change nothing and
\* are no steps of the model
MuteSweepDeadline(lob) ==
  LET times == {lob.MuteCooldownsByIP[k] : k \in DOMAIN lob.MuteCooldownsByIP}
                 \cup {lob.MutesByIP[k] : k \in DOMAIN lob.MutesByIP}
  IN  IF times = {} THEN Stopped
      ELSE TickerAt(lob.muteExpiryTicker, MuteSweepPeriod, Min(times) + 1)

\* timerMinder, case <-l.muteExpiryTicker.C: go l.CleanupMuteExpirations(), and
\* the first half of that goroutine: it lists the IPs whose cooldown and whose
\* mute have passed.  It holds no lock of the lobby.
CleanupMuteExpirationsCollect ==
  /\ Up /\ minder = "running" /\ sweep = NoSweep
  /\ Due(MuteSweepDeadline(l))
  /\ sweep' = [pc |-> "delete",
               cds |-> ExpiredKeys(l.MuteCooldownsByIP, now),
               mutes |-> ExpiredKeys(l.MutesByIP, now)]
  /\ l' = [L EXCEPT !.muteExpiryTicker = MuteSweepDeadline(l) + MuteSweepPeriod]
  /\ resp' = NoResp
  /\ UNCHANGED <<reg, calls, now, m, user, minder, pick, calc, addReq, muteReq, skipReq, fault, joinReq>>

\* CleanupMuteExpirations, lines 308-324: the listed IPs are deleted from the
\* two maps, whatever the maps hold for them by now
CleanupMuteExpirationsDelete ==
  /\ Up /\ sweep.pc = "delete"
  /\ l' = Broadcast([L EXCEPT
              !.MuteCooldownsByIP = [k \in (DOMAIN @) \ sweep.cds |-> @[k]],
              !.MutesByIP = [k \in (DOMAIN @) \ sweep.mutes |-> @[k]]],
            "users_update", "")
  /\ sweep' = NoSweep
  /\ resp' = NoResp
  /\ UNCHANGED <<reg, calls, now, m, user, minder, pick, calc, addReq, muteReq, skipReq, fault, joinReq>>

\* time passes by at most `step`, up to the next of the deadlines and to the
\* horizon; it does not pass while a timer of `deadlines` is due and timerMinder
\* is there to take it, nor while a goroutine or a request handler only waits to
\* be scheduled
PassTime(step, deadlines, horizon) ==
  LET armed == IF minder = "running" THEN {d \in deadlines : d # Stopped} ELSE {}
  IN  /\ Up
      /\ \A d \in armed : d > now
      /\ ~Midway
      /\ CanLock => ~AtLock
      /\ now < horizon
      /\ now' = Min(armed \cup {now + step, horizon})
      /\ l' = [L EXCEPT !.videoCleanupTicker = TickerAt(@, VideoCleanupPeriod, now')]
      /\ resp' = NoResp
      /\ UNCHANGED <<reg, sweep, calls, m, user, minder, pick, calc, addReq, muteReq, skipReq, fault, joinReq>>

----------------------------------------------------------------------------
\* SpecSkip: the skip vote, the completion timer and the idle sweep, on a lobby
\* with one to MaxUsers members and one or two videos added (the first playing).

InitSkip ==
  /\ now = 0
  /\ \E n \in 1..MaxUsers : \E vids \in {<<1>>, <<1, 2>>} :
       /\ l = LobbyWith("linear", DefaultUserQueueLimit, 1..n, vids)
       /\ InitRest(1..n)

TickSkip ==
  PassTime(VoteTimeout, {l.nextTimer, l.voteSkipTimer}, HorizonSkip)

NextSkip ==
  \/ NextTimerFires
  \/ PickNextVideoBegin
  \/ PickNextVideoSet
  \/ VoteSkipTimerFires
  \/ \E src \in {"timer", "early"} : RunCalcVoteSkipResult(src)
  \/ \E u \in UserIDs : HandleVoteSkipStartCheck(u)
  \/ \E u \in UserIDs : HandleVoteSkipStartAct(u)
  \/ \E u \in UserIDs : \E who \in {"yes", "no"} : HandleVoteSkipSubmit(u, who)
  \/ TickSkip

SpecSkip == InitSkip /\ [][NextSkip]_vars

----------------------------------------------------------------------------
\* SpecMute: mute votes in a lobby of two or more members where nothing plays.

InitMute ==
  /\ now = 0
  /\ \E n \in 2..MaxUsers :
       /\ l = LobbyWith("linear", DefaultUserQueueLimit, 1..n, <<>>)
       /\ InitRest(1..n)

TickMute == PassTime(VoteTimeout, {l.voteMuteTimer}, HorizonMute)

NextMute ==
  \/ \E u, target \in UserIDs : HandleVoteMuteStartCheck(u, target)
  \/ \E q \in muteReq : HandleVoteMuteStartAct(q)
  \/ \E q \in muteReq : HandleVoteMuteStartAnnounce(q)
  \/ \E u \in UserIDs, who \in {"yes", "no"} : HandleVoteMuteSubmit(u, who)
  \/ VoteMuteTimerFires
  \/ \E src \in {"timer", "early"} : RunCalcVoteMuteResult(src)
  \/ TickMute

SpecMute == InitMute /\ [][NextMute]_vars

----------------------------------------------------------------------------
\* SpecQueue: members add videos while the queue plays.

InitQueue ==
  /\ now = 0
  /\ \E n \in 1..MaxUsers, limit \in 1..MaxQueueLimit, mode \in {"linear", "shuffle"} :
     \E vids \in {<<>>, <<1>>} :
       /\ l = LobbyWith(mode, limit, 1..n, vids)
       /\ InitRest(1..n)

TickQueue == PassTime(DurationOf(1), {l.nextTimer}, HorizonQueue)

NextQueue ==
  \/ \E u \in UserIDs, v \in VideoIDs : HandleAddVideoBegin(u, v)
  \/ \E q \in addReq : HandleAddVideoPlayed(q)
  \/ \E q \in addReq : HandleAddVideoQueued(q)
  \/ \E q \in addReq : HandleAddVideoLimit(q)
  \/ \E q \in addReq : HandleAddVideoAdd(q)
  \/ NextTimerFires
  \/ PickNextVideoBegin
  \/ PickNextVideoSet
  \/ TickQueue

SpecQueue == InitQueue /\ [][NextQueue]_vars

----------------------------------------------------------------------------
\* SpecHistory: the play history over the hours of a lobby's life.  Its one
\* member loads the page and adds videos, the history is swept; a run ends when
\* the lobby's expiry comes.  The member's page stays open: its heartbeats keep
\* the idle sweep from removing the member, and neither is a step here.

HorizonHours == (MaxCalls + 1) * ExpiryWindow

InitHistory ==
  /\ now = 0
  /\ \E mode \in {"linear", "shuffle"} :
       /\ l = LobbyWith(mode, DefaultUserQueueLimit, {1}, <<1>>)
       /\ InitRest({1})

TickHistory ==
  PassTime(HoursStep, {l.nextTimer, l.expiryTimer, SweepDeadline(l)}, HorizonHours)

NextHistory ==
  \/ \E u \in UserIDs, streaming \in BOOLEAN : HandleLobbyPage(u, streaming)
  \/ \E u \in UserIDs, v \in VideoIDs : HandleAddVideoBegin(u, v)
  \/ \E q \in addReq : HandleAddVideoPlayed(q)
  \/ \E q \in addReq : HandleAddVideoQueued(q)
  \/ \E q \in addReq : HandleAddVideoLimit(q)
  \/ \E q \in addReq : HandleAddVideoAdd(q)
  \/ NextTimerFires
  \/ PickNextVideoBegin
  \/ PickNextVideoSet
  \/ CleanupPlayedVideos
  \/ TickHistory

SpecHistory == InitHistory /\ [][NextHistory]_vars

----------------------------------------------------------------------------
\* SpecExpiry: the lobby's expiry.  Members load the page and add a video,
\* visitors join; an hour after the last of these touches the lobby expires.

InitExpiry ==
  /\ now = 0
  /\ \E n \in 1..(MaxUsers - 1) : \E vids \in {<<>>, <<1>>} :
       /\ l = LobbyWith("linear", DefaultUserQueueLimit, 1..n, vids)
       /\ InitRest(1..n)

TickExpiry == PassTime(HoursStep, {l.nextTimer, l.expiryTimer}, HorizonHours)

NextExpiry ==
  \/ \E u \in UserIDs, streaming \in BOOLEAN : HandleLobbyPage(u, streaming)
  \/ \E u \in UserIDs : HandleJoinLobbyAdd(u)
  \/ \E u \in UserIDs : HandleJoinLobbyTouch(u)
  \/ \E u \in UserIDs : HandleAddVideoBegin(u, MaxVideoIds)
  \/ \E q \in addReq : HandleAddVideoPlayed(q)
  \/ \E q \in addReq : HandleAddVideoQueued(q)
  \/ \E q \in addReq : HandleAddVideoLimit(q)
  \/ \E q \in addReq : HandleAddVideoAdd(q)
  \/ NextTimerFires
  \/ PickNextVideoBegin
  \/ PickNextVideoSet
  \/ ExpiryTimerFires
  \/ Expire
  \/ RemoveLobby
  \/ MinderStops
  \/ TickExpiry

SpecExpiry == InitExpiry /\ [][NextExpiry]_vars

----------------------------------------------------------------------------
\* SpecCap: a lobby whose queue holds the documented maximum of videos.  Its
\* per-user cap is the largest a lobby can have, so the full queue takes
\* CapMembers - 1 members at their cap; one more member has none queued.

CapMembers == LobbyQueueCap \div MaxUserQueueLimit + 1

\* videos 1..LobbyQueueCap, MaxUserQueueLimit by each of the users
\* 1..CapMembers - 1
CapQueue ==
  [k \in 1..LobbyQueueCap |-> NewVideo(k, (k - 1) \div MaxUserQueueLimit + 1)]

\* Lobby.AddVideo for each of `videos` in turn at this instant, a video playing:
\* each call appends its video, announces the playlist and touches the lobby
AddVideosPlaying(lob, videos) ==
  Unlock(Touch(Broadcast([Lock(lob) EXCEPT !.Videos = @ \o videos], "playlist_update", "")))

\* user 1 added video LobbyQueueCap + 1, which plays, and the users added the
\* videos of CapQueue
InitCap ==
  /\ now = 0
  /\ l = [AddVideosPlaying(LobbyWith("linear", MaxUserQueueLimit, 1..CapMembers,
                                     <<LobbyQueueCap + 1>>), CapQueue)
            EXCEPT !.sent = NoEvent]
  /\ InitRest(1..CapMembers)

NextCap ==
  \/ \E u \in 1..CapMembers, v \in (LobbyQueueCap + 2)..(LobbyQueueCap + 3) :
       HandleAddVideoBegin(u, v)
  \/ \E q \in addReq : HandleAddVideoPlayed(q)
  \/ \E q \in addReq : HandleAddVideoQueued(q)
  \/ \E q \in addReq : HandleAddVideoLimit(q)
  \/ \E q \in addReq : HandleAddVideoAdd(q)
  \/ NextTimerFires
  \/ PickNextVideoBegin
  \/ PickNextVideoSet
  \/ TickQueue

SpecCap == InitCap /\ [][NextCap]_vars

----------------------------------------------------------------------------
\* Claims about the skip vote.

\* a step that resolves the active skip vote (EndVoteSkip ran)
SkipVoteResolves ==
  /\ SkipVoteCurrent(l)
  /\ calc'.skip # calc.skip /\ calc'.skip \subseteq calc.skip
  /\ \E d \in {"passed", "failed"} : Sent(l', "vote_skip_end", d)

\* the queue advanced from lobby value a to lobby value b: the entry PickNextVideo
\* selects is current and out of the queue, or nothing plays when it was empty
Advanced(a, b) ==
  \E idx \in PickIndices(a) :
    /\ b.CurrentVideo = PickSelected(a, idx)
    /\ b.Videos = IF idx = 0 THEN <<>> ELSE RemoveAt(a.Videos, idx)

SoloSkipActs ==
  /\ skipReq' # skipReq /\ skipReq' \subseteq skipReq
  /\ FewerThanTwo(l)

\* C9: a skip request that found a video playing, made in a lobby of fewer than
\* two members, skips at once: the response is the immediate skip, the video that
\* was current is marked skipped, the queue has advanced and no skip vote is
\* active afterwards.
C9_SoloSkip ==
  [][ SoloSkipActs =>
        /\ resp' = Resp("skip_start", "skipped")
        /\ l'.prev = MarkSkipped(l).CurrentVideo
        /\ Advanced(l, l')
        /\ ~l'.VoteSkip.Active ]_vars

\* a step in which PickNextVideo runs its empty-queue branch: the goroutine the
\* completion timer started, the lone member's skip, or a skip vote that passed
PickOnEmpty ==
  \/ pick.pc = "set" /\ pick.next = NoVideo /\ pick' = NoPick
  \/ SoloSkipActs /\ l.CurrentVideo # NoVideo /\ Len(l.Videos) = 0
  \/ SkipVoteResolves /\ SkipSucceeded(l) /\ Len(l.Videos) = 0

\* C7: PickNextVideo on an empty queue leaves no current video, broadcasts
\* video_update with an empty payload, fails nothing (no panic: the process and
\* the lobby mutex are as before) and arms no completion timer (the timer is
\* stopped, or as the step found it).
C7_PickOnEmpty ==
  [][ PickOnEmpty =>
        /\ l'.CurrentVideo = NoVideo
        /\ Sent(l', "video_update", "")
        /\ fault' = fault
        /\ l'.nextTimer \in {Stopped, l.nextTimer} ]_vars

\* C7 witness: video 1 was the last one; a PickNextVideo at the end of its play
\* time found the queue empty: nothing plays, the empty update went out and no
\* timer is armed
C7_Witness ==
  /\ pick = NoPick
  /\ l.prev.id = 1
  /\ l.CurrentVideo = NoVideo
  /\ Sent(l, "video_update", "")
  /\ l.nextTimer = Stopped
  /\ now = DurationOf(1)

----------------------------------------------------------------------------
\* Claims about the mute vote.

\* C1: no user is in both the yes-set and the no-set of a vote, skip or mute.
C1_VotesDisjoint ==
  /\ l.VoteSkip.YesVotes \cap l.VoteSkip.NoVotes = {}
  /\ l.VoteMute.YesVotes \cap l.VoteMute.NoVotes = {}

\* a step in which HandleVoteMuteStart ends or goes on to open its vote
MuteStartActs == \E q \in muteReq : q.pc = "start" /\ q \notin muteReq'

\* C10: a request to start a mute vote that is served while a mute vote is
\* active is refused and leaves the vote as it was: target, initiator, start
\* time, yes-votes and no-votes.
C10_OneMuteVote ==
  [][ MuteStartActs /\ l.VoteMute.Active =>
        /\ l'.VoteMute = l.VoteMute
        /\ resp'.status \in {"conflict", "cooldown", "bad request"} ]_vars

----------------------------------------------------------------------------
\* Claims about the queue.

\* C3: the queue holds no video id twice and never the id of the current video.
C3_QueueDistinct ==
  /\ \A i, j \in 1..Len(l.Videos) : i # j => l.Videos[i].id # l.Videos[j].id
  /\ \A i \in 1..Len(l.Videos) : l.Videos[i].id # l.CurrentVideo.id

\* C6: the queue never holds more than the documented maximum of 100 videos.
C6_QueueCap == Len(l.Videos) <= LobbyQueueCap

\* C4: no user has more entries in the queue than the lobby's UserQueueLimit.
C4_UserLimit == \A u \in UserIDs : UserVideoCount(l, u) <= l.UserQueueLimit

----------------------------------------------------------------------------
\* Claims about the play history and the lobby's expiry.

\* a step in which HandleAddVideo, its metadata fetched, consults the play history
AddAsksHistory(q) == q \in addReq /\ q.pc = "fetch" /\ q \notin addReq'

\* C5: an add of a video id whose play-history entry names a time still to come
\* is refused and leaves the queue as it is, and an add of an id whose
\* eligibility time has passed is not refused for having been played.
C5_ReplayCooldown ==
  [][ \A q \in addReq : AddAsksHistory(q) =>
        LET played   == MapExists(l.PlayedVideos, q.vid)
            eligible == ~played \/ l.PlayedVideos[q.vid] < now
        IN  /\ (played /\ l.PlayedVideos[q.vid] > now) =>
                 resp' = Resp("add", "played") /\ l'.Videos = l.Videos
            /\ eligible => resp' # Resp("add", "played") ]_vars

\* C8: the lobby leaves the registry only when the expiry window has passed
\* since its last touch (ExpiresAt is that touch's time plus the window).
C8_ExpiryWindow ==
  [][ (1 \in m.Lobbies /\ 1 \notin m'.Lobbies) => now >= l.ExpiresAt ]_vars

----------------------------------------------------------------------------
\* More claims about the mute vote.

\* C11: a request to start a mute vote whose initiator is its own target, or whose
\* target is no member of the lobby, is refused: no step of HandleVoteMuteStart
\* serving it changes the mute vote or the mute-vote cooldowns, and the step that
\* ends it answers with a refusal.
C11_MuteStartRejected ==
  [][ /\ \A u \in UserIDs :
           HandleVoteMuteStartCheck(u, u) =>
             /\ resp'.status \in {"conflict", "forbidden"}
             /\ l'.VoteMute = l.VoteMute
             /\ l'.MuteCooldownsByIP = l.MuteCooldownsByIP
             /\ muteReq' = muteReq
      /\ \A u, t \in UserIDs :
           (t \notin l.Users /\ HandleVoteMuteStartCheck(u, t)) =>
             /\ l'.VoteMute = l.VoteMute
             /\ l'.MuteCooldownsByIP = l.MuteCooldownsByIP
      /\ \A q \in muteReq :
           (q.target \notin l.Users /\ HandleVoteMuteStartAct(q)) =>
             /\ resp'.status \in {"cooldown", "bad request"}
             /\ q \notin muteReq'
             /\ \A r \in muteReq' : r.user # q.user
             /\ l'.VoteMute = l.VoteMute
             /\ l'.MuteCooldownsByIP = l.MuteCooldownsByIP ]_vars

\* C11 witness: a start request against a user who is no member was just refused
\* as invalid, with no mute vote active and no cooldown recorded
C11_Witness ==
  /\ resp = Resp("mute_start", "bad request")
  /\ ~l.VoteMute.Active
  /\ l.MuteCooldownsByIP = EmptyMap

\* a step that resolves the active mute vote (EndVoteMute ran)
MuteVoteResolves ==
  /\ l.VoteMute.Active
  /\ calc'.mute # calc.mute /\ calc'.mute \subseteq calc.mute
  /\ \E d \in {"passed", "failed"} : Sent(l', "vote_mute_end", d)

\* C12: a mute vote that is resolved passes only with at least
\* floor(member_count / 2) + 1 yes-votes at that moment, and fails with fewer.
C12_MuteMajority ==
  [][ MuteVoteResolves =>
        LET yes  == Cardinality(l.VoteMute.YesVotes)
            need == Cardinality(l.Users) \div 2 + 1
        IN  /\ Sent(l', "vote_mute_end", "passed") => yes >= need
            /\ yes < need => Sent(l', "vote_mute_end", "failed") ]_vars


\* C13: a mute vote that passes while its target is a member sets the target's
\* MutedUntil and the MutesByIP entry of the target's IP to the same instant,
\* MuteDuration after the resolution; a mute vote that fails changes neither any
\* user's MutedUntil nor MutesByIP.
C13_MuteRecords ==
  [][ MuteVoteResolves =>
        LET t == l.VoteMute.TargetID
        IN  /\ (Sent(l', "vote_mute_end", "passed") /\ t \in l.Users) =>
                 /\ user'[t].MutedUntil = now + MuteDuration
                 /\ MapExists(l'.MutesByIP, IPOf(t))
                 /\ l'.MutesByIP[IPOf(t)] = user'[t].MutedUntil
            /\ Sent(l', "vote_mute_end", "failed") =>
                 /\ user' = user
                 /\ l'.MutesByIP = l.MutesByIP ]_vars

\* C13 witness: the vote to mute user 1 has just passed at its timeout, and both
\* records name the instant ten minutes on
C13_Witness ==
  /\ Sent(l, "vote_mute_end", "passed")
  /\ now = VoteTimeout
  /\ user[1].MutedUntil = now + MuteDuration
  /\ MapExists(l.MutesByIP, IPOf(1))
  /\ l.MutesByIP[IPOf(1)] = now + MuteDuration


----------------------------------------------------------------------------
\* SpecReap: mute votes while members go idle.  A member who logs out, or sends
\* no heartbeat, is removed from the lobby by the manager's sweep; nobody joins.

\* the end of the time SpecReap looks at: the sweep has removed every member
\* that went quiet at the start
HorizonReap == VoteTimeout + UserCleanupPeriod

InitReap ==
  /\ now = 0
  /\ \E n \in 2..MaxUsers :
       /\ l = LobbyWith("linear", DefaultUserQueueLimit, 1..n, <<>>)
       /\ InitRest(1..n)

TickReap ==
  PassTime(UserCleanupPeriod, {l.voteMuteTimer, m.userCleanupTicker}, HorizonReap)

NextReap ==
  \/ \E u, target \in UserIDs : HandleVoteMuteStartCheck(u, target)
  \/ \E q \in muteReq : HandleVoteMuteStartAct(q)
  \/ \E q \in muteReq : HandleVoteMuteStartAnnounce(q)
  \/ \E u \in UserIDs, who \in {"yes", "no"} : HandleVoteMuteSubmit(u, who)
  \/ VoteMuteTimerFires
  \/ \E src \in {"timer", "early"} : RunCalcVoteMuteResult(src)
  \/ \E u \in UserIDs : HandleLogout(u)
  \/ \E u \in UserIDs : HandleHeartbeat(u)
  \/ CleanupUsers
  \/ TickReap

SpecReap == InitReap /\ [][NextReap]_vars

\* C14: every mute vote that passes leaves a MutesByIP entry for the IP of its
\* target, whether or not the target is still a member when the vote is resolved.
C14_MuteByIPAlways ==
  [][ (MuteVoteResolves /\ Sent(l', "vote_mute_end", "passed")) =>
        MapExists(l'.MutesByIP, IPOf(l.VoteMute.TargetID)) ]_vars


----------------------------------------------------------------------------
\* SpecRejoin: a muted member and identity churn.  The lobby starts right after
\* a mute vote passed; members log out, are removed as idle, join again from
\* their address, and add videos.  No vote is started.

HorizonRejoin == 50

\* the lobby right after the mute vote of user 2 against user 1 passed: users 3
\* and 1 voted yes at once, which made the quorum of three
MutedLobby ==
  LET a == LobbyWith("linear", DefaultUserQueueLimit, 1..3, <<>>)
      b == StartVoteMuteAnnounce(StartVoteMute(a, 2, 1))
  IN  RecordMuteVote(RecordMuteVote(b, 3, "yes"), 1, "yes")

InitRejoin ==
  /\ now = 0
  /\ MuteQuorumReached(MutedLobby) /\ MuteSucceeded(MutedLobby)
  /\ l = [EndVoteMute(MutedLobby, TRUE) EXCEPT !.sent = NoEvent]
  /\ user = EndVoteMuteUser([u \in UserIDs \cup 1..3 |-> NewUser], MutedLobby, TRUE)
  /\ m = ManagerWith(1..3)
  /\ minder = "running"
  /\ pick = NoPick
  /\ calc = NoCalc
  /\ addReq = {}
  /\ muteReq = {}
  /\ skipReq = {}
  /\ joinReq = {}
  /\ fault = "none"
  /\ resp = NoResp
  /\ calls = 0
  /\ sweep = NoSweep
  /\ reg = NoReg

TickRejoin == PassTime(UserCleanupPeriod, {m.userCleanupTicker}, HorizonRejoin)

\* the members whose sessions come and go: the muted user 1 and user 2
Churners == 1..2

NextRejoin ==
  \/ \E u \in Churners : HandleLogout(u)
  \/ CleanupUsers
  \/ \E u \in Churners : HandleJoinLobbyAdd(u)
  \/ \E u \in Churners, streaming \in BOOLEAN : HandleJoinLobbyAgain(u, streaming)
  \/ \E u \in Churners : HandleJoinLobbyTouch(u)
  \/ \E u \in Churners : HandleAddVideoBegin(u, 2)
  \/ \E q \in addReq : HandleAddVideoPlayed(q)
  \/ \E q \in addReq : HandleAddVideoQueued(q)
  \/ \E q \in addReq : HandleAddVideoLimit(q)
  \/ \E q \in addReq : HandleAddVideoAdd(q)
  \/ TickRejoin

SpecRejoin == InitRejoin /\ [][NextRejoin]_vars

\* a step in which HandleJoinLobby makes user u a member
JoinAdds(u) == u \notin joinReq /\ u \in joinReq'

\* C15: a user who joins from an IP that has a MutesByIP entry not yet expired
\* gets that entry's time as MutedUntil, and an add-video request of a user whose
\* MutedUntil is in the future is refused and goes no further: the queue is as
\* it was and the request is over.
C15_MuteFollowsIP ==
  [][ /\ \A u \in UserIDs :
           ( /\ JoinAdds(u)
             /\ MapExists(l.MutesByIP, IPOf(u))
             /\ l.MutesByIP[IPOf(u)] > now ) =>
             user'[u].MutedUntil = l.MutesByIP[IPOf(u)]
      /\ \A u \in UserIDs, v \in VideoIDs :
           (user[u].MutedUntil > now /\ HandleAddVideoBegin(u, v)) =>
             /\ resp' = Resp("add", "muted")
             /\ l'.Videos = l.Videos
             /\ l'.CurrentVideo = l.CurrentVideo
             /\ addReq' = addReq ]_vars

\* C15 witness: user 1, muted until MuteDuration, has just joined again after
\* the start as a new User object, which carries the mute
C15_Witness ==
  /\ 1 \in joinReq
  /\ now > 0
  /\ user[1].LastActivity = now
  /\ MapExists(l.MutesByIP, IPOf(1))
  /\ user[1].MutedUntil = l.MutesByIP[IPOf(1)]
  /\ user[1].MutedUntil > now


----------------------------------------------------------------------------
\* SpecCooldown: mute votes over more than one cooldown period, with the sweep
\* of the cooldown and mute records that timerMinder starts every five seconds.

InitCooldown ==
  /\ now = 0
  /\ \E n \in 2..MaxUsers :
       /\ l = LobbyWith("linear", DefaultUserQueueLimit, 1..n, <<>>)
       /\ InitRest(1..n)

TickCooldown ==
  PassTime(CooldownStep, {l.voteMuteTimer, MuteSweepDeadline(l)}, HorizonCooldown)

NextCooldown ==
  \/ \E u, target \in UserIDs : HandleVoteMuteStartCheck(u, target)
  \/ \E q \in muteReq : HandleVoteMuteStartAct(q)
  \/ \E q \in muteReq : HandleVoteMuteStartAnnounce(q)
  \/ VoteMuteTimerFires
  \/ RunCalcVoteMuteResult("timer")
  \/ CleanupMuteExpirationsCollect
  \/ CleanupMuteExpirationsDelete
  \/ TickCooldown

SpecCooldown == InitCooldown /\ [][NextCooldown]_vars

\* C16: a mute vote start from an IP other than the creator's, served less than
\* five minutes after a vote was started from that IP, is rejected and starts
\* nothing; a start from the creator's IP records no cooldown and is never
\* rejected for one.
C16_MuteCooldown ==
  [][\A q \in muteReq :
       HandleVoteMuteStartAct(q) =>
         /\ ( /\ IPOf(q.user) # l.CreatorIP
              /\ MapExists(l.startedMute, IPOf(q.user))
              /\ now < l.startedMute[IPOf(q.user)] + MuteVoteCooldown )
            => (resp'.status = "cooldown" /\ l'.VoteMute = l.VoteMute)
         /\ IPOf(q.user) = l.CreatorIP
            => ( /\ resp'.status # "cooldown"
                 /\ l'.MuteCooldownsByIP = l.MuteCooldownsByIP
                 /\ ~MapExists(l.MuteCooldownsByIP, l.CreatorIP) )]_vars


----------------------------------------------------------------------------
\* More claims about the skip vote.

\* a cast skip vote hands the vote over to CalcVoteSkipResult
SkipVoteTriggers ==
  /\ \E u \in UserIDs, who \in {"yes", "no"} : HandleVoteSkipSubmit(u, who)
  /\ "early" \in calc'.skip /\ "early" \notin calc.skip

\* C17: a cast vote triggers the resolution of a skip vote, and the vote is
\* resolved before its timeout, only when the yes-votes number at least
\* ceil((member_count + 1) / 2).
C17_SkipQuorum ==
  [][ /\ SkipVoteTriggers =>
           2 * Cardinality(l'.VoteSkip.YesVotes) >= Cardinality(l'.Users) + 1
      /\ (SkipVoteResolves /\ RunCalcVoteSkipResult("early")) =>
           2 * Cardinality(l.VoteSkip.YesVotes) >= Cardinality(l.Users) + 1 ]_vars


\* C18: a skip vote or a mute vote that a cast vote resolves passes, and no
\* vote fails before VoteTimeout seconds have passed since it started.
C18_EarlySucceeds ==
  [][ /\ (SkipVoteResolves /\ RunCalcVoteSkipResult("early")) =>
           Sent(l', "vote_skip_end", "passed")
      /\ (SkipVoteResolves /\ Sent(l', "vote_skip_end", "failed")) =>
           now >= l.VoteSkip.StartedAt + VoteTimeout
      /\ (MuteVoteResolves /\ RunCalcVoteMuteResult("early")) =>
           Sent(l', "vote_mute_end", "passed")
      /\ (MuteVoteResolves /\ Sent(l', "vote_mute_end", "failed")) =>
           now >= l.VoteMute.StartedAt + VoteTimeout ]_vars


----------------------------------------------------------------------------
\* More claims about the mute vote's quorum.

\* C19: a vote cast on an active mute vote that brings the yes-votes above half
\* of the members hands the vote over to CalcVoteMuteResult in that request.
C19_MuteEarly ==
  [][ ( /\ \E u \in UserIDs, who \in {"yes", "no"} : HandleVoteMuteSubmit(u, who)
        /\ l.VoteMute.Active
        /\ 2 * Cardinality(l'.VoteMute.YesVotes) > Cardinality(l'.Users) )
      => "early" \in calc'.mute ]_vars


----------------------------------------------------------------------------
\* More claims about starting a skip vote.

\* C20: whenever a request starts a skip vote, a video is playing, that video
\* has not survived a skip vote during this play, and no skip vote was active.
C20_SkipStartGuarded ==
  [][ \A u \in UserIDs :
        (HandleVoteSkipStartAct(u) /\ l'.VoteSkip.Active /\ l'.VoteSkip # l.VoteSkip) =>
          /\ l.CurrentVideo # NoVideo
          /\ ~l.CurrentVideo.WasVoted
          /\ ~l.VoteSkip.Active ]_vars


----------------------------------------------------------------------------
\* Claims about the completion timer.

\* the goroutine timerMinder started on a firing of nextTimer takes a step
\* while the video that is playing has not reached its end
StalePickSteps ==
  /\ PickNextVideoBegin \/ PickNextVideoSet
  /\ l.CurrentVideo # NoVideo
  /\ now < l.VideoStart + l.CurrentVideo.dur

\* C21: a completion-timer firing that is served after the queue has advanced
\* past the video it was armed for changes neither the queue nor the video
\* that is playing.
C21_StaleTimerNoOp ==
  [][ StalePickSteps =>
        /\ l'.CurrentVideo = l.CurrentVideo
        /\ l'.Videos = l.Videos
        /\ l'.VideoStart = l.VideoStart ]_vars


----------------------------------------------------------------------------
\* The registry, object by object.  reg.Lobbies maps a lobby code to a Lobby
\* object, reg.UsersByIP and reg.UsersBySessionID map an address and a session
\* token to a User object; reg.lob and reg.usr hold the objects in the order of
\* their construction (an object is named by its place), reg.req the requests
\* in flight.  The handlers take no manager lock: each call a handler makes on
\* the manager or on a lobby is one step, and other requests run in between.

\* the addresses requests come from
IPs == 1..MaxIPs

\* the lobby codes shared.GenerateID(LobbyIDLength) can return
LobbyCodes == 1..(MaxLobbies + SpareCodes)

\* no object (a nil pointer, an empty cookie, an empty LobbyID)
None == 0

\* &Lobby{ID: id, ...} with go l.timerMinder(cancelCtx) started
NewLobbyObj(id, creatorIP) ==
  [ ID |-> id, CreatorIP |-> creatorIP, Users |-> {}, UsersBySession |-> {},
    ExpiresAt |-> now + ExpiryWindow, minder |-> "running" ]

\* the names typed into the form; nameRegex lets letters, digits and spaces
\* through, so a name that arrives holds no '#'
FormTexts == {"al", "Al"}

\* a display name: the text typed, and the counter AddUser appended after a
\* '#' (0: none appended)
FormName(t) == [text |-> t, suffix |-> 0]

\* strings.ToLower: the letters in lower case, '#' and the digits as they are
ToLower(name) ==
  [name EXCEPT !.text = IF @ = "Al" THEN "al" ELSE @]

\* &User{ID, SessionID, Name, IP, LastActivity}; shared.GenerateID is taken
\* to return an id and a session token no other user has: the user's place
NewUserObj(id, name, ip) ==
  [ ID |-> id, SessionID |-> id, Name |-> name, IP |-> ip,
    LastActivity |-> now, LobbyID |-> None ]

\* LobbyManager.NewUser
RegNewUser(r, name, ip) ==
  LET id == Len(r.usr) + 1
  IN  [r EXCEPT !.usr = Append(@, NewUserObj(id, name, ip)),
                !.UsersByIP = MapSet(@, ip, id),
                !.UsersBySessionID = MapSet(@, id, id)]

\* Lobby.RemoveUser on the lobby object k: l.Users.Delete(user.ID)
RegRemoveUser(r, k, u) ==
  [r EXCEPT !.lob[k].Users = @ \ {r.usr[u].ID}]

\* the three statements CleanExistingSessions and CleanupUsers run for a user
\* they found: leave the lobby registered under the user's LobbyID, delete
\* the user's session token and address from the manager's maps
RegDropUser(r, u) ==
  LET a == IF MapExists(r.Lobbies, r.usr[u].LobbyID)
             THEN RegRemoveUser(r, r.Lobbies[r.usr[u].LobbyID], u)
             ELSE r
  IN  [a EXCEPT !.UsersBySessionID = MapDelete(@, r.usr[u].SessionID),
                !.UsersByIP = MapDelete(@, r.usr[u].IP)]

\* LobbyManager.CleanExistingSessions
RegCleanExistingSessions(r, sessionId, ip) ==
  LET a == IF sessionId # None /\ MapExists(r.UsersBySessionID, sessionId)
             THEN RegDropUser(r, r.UsersBySessionID[sessionId])
             ELSE r
  IN  IF MapExists(a.UsersByIP, ip) THEN RegDropUser(a, a.UsersByIP[ip]) ELSE a

\* LobbyManager.NewLobby with the code GenerateID returned, and AddLobby:
\* m.Lobbies.Set(l.ID, l)
RegNewLobby(r, id, creatorIP) ==
  [r EXCEPT !.lob = Append(@, NewLobbyObj(id, creatorIP)),
            !.Lobbies = MapSet(@, id, Len(r.lob) + 1)]

\* Lobby.AddUser, lines 175-180: one more than the members of the lobby object
\* k whose name, in lower case, is the user's name in lower case
DupCount(r, k, u) ==
  1 + Cardinality({v \in r.lob[k].Users : ToLower(r.usr[v].Name) = ToLower(r.usr[u].Name)})

\* Lobby.AddUser, lines 182-184: fmt.Sprintf("%s#%d", user.Name, dupCount)
DedupName(r, k, u) ==
  IF DupCount(r, k, u) > 1
    THEN [r.usr[u].Name EXCEPT !.suffix = DupCount(r, k, u)]
    ELSE r.usr[u].Name

\* Lobby.AddUser on the lobby object k
RegAddUser(r, k, u) ==
  [r EXCEPT !.usr[u].Name = DedupName(r, k, u),
            !.usr[u].LobbyID = r.lob[k].ID,
            !.lob[k].Users = @ \cup {r.usr[u].ID},
            !.lob[k].UsersBySession = @ \cup {r.usr[u].SessionID}]

\* a request in flight takes its next step
RegStep(q, pc, u, k) ==
  (reg.req \ {q}) \cup {[q EXCEPT !.pc = pc, !.user = u, !.lobby = k]}

\* what the new actions leave alone: the one lobby of the other specifications
RegFrame ==
  /\ l' = L
  /\ UNCHANGED <<now, m, user, minder, pick, calc, addReq, muteReq, skipReq,
                 fault, joinReq, sweep>>

\* HandleCreateLobby, lines 319-323: the capacity test
HandleCreateLobbyCheck(ip, cookie, name) ==
  /\ Served
  /\ Cardinality(reg.req) < MaxReqs
  /\ IF Cardinality(DOMAIN reg.Lobbies) >= MaxLobbies
       THEN /\ reg' = reg
            /\ resp' = Resp("create", "lobby limit exceeded")
       ELSE /\ reg' = [reg EXCEPT !.req = @ \cup
                        {[kind |-> "create", pc |-> "clean", ip |-> ip, cookie |-> cookie,
                          name |-> name, user |-> None, lobby |-> None]}]
            /\ resp' = NoResp
  /\ RegFrame

\* HandleCreateLobby, line 337 / HandleJoinLobby, line 451
HandleClean(q) ==
  /\ q \in reg.req /\ q.pc = "clean"
  /\ reg' = [RegCleanExistingSessions(reg, q.cookie, q.ip)
               EXCEPT !.req = RegStep(q, "user", None, q.lobby)]
  /\ resp' = NoResp
  /\ calls' = calls
  /\ RegFrame

\* HandleCreateLobby, line 339 / HandleJoinLobby, line 453
HandleNewUser(q) ==
  /\ q \in reg.req /\ q.pc = "user"
  /\ reg' = [RegNewUser(reg, q.name, q.ip)
               EXCEPT !.req = RegStep(q, IF q.kind = "create" THEN "lobby" ELSE "add",
                                      Len(reg.usr) + 1, q.lobby)]
  /\ resp' = NoResp
  /\ calls' = calls
  /\ RegFrame

\* HandleCreateLobby, line 351: manager.NewLobby
HandleCreateLobbyNew(q, id) ==
  /\ q \in reg.req /\ q.pc = "lobby" /\ id \in LobbyCodes
  /\ reg' = [RegNewLobby(reg, id, q.ip)
               EXCEPT !.req = RegStep(q, "add", q.user, Len(reg.lob) + 1)]
  /\ resp' = NoResp
  /\ calls' = calls
  /\ RegFrame

\* HandleCreateLobby, lines 353-365: lobby.AddUser(user) and the redirect; when
\* http.Error has written "invalid host" (line 329, the address is empty from
\* then on) the status and the body of the response are already on the wire
HandleCreateLobbyAdd(q) ==
  /\ q \in reg.req /\ q.pc = "add" /\ q.kind = "create"
  /\ reg' = [RegAddUser(reg, q.lobby, q.user) EXCEPT !.req = @ \ {q}]
  /\ resp' = Resp("create", IF q.ip = None THEN "invalid host" ELSE "see other")
  /\ calls' = calls
  /\ RegFrame


\* InjectSession, lines 95-166: a request with a session cookie is turned away
\* when no user has the session, and when the address has another user
SessionRefusal(r, cookie, ip) ==
  IF cookie = None THEN ""
  ELSE IF ~MapExists(r.UsersBySessionID, cookie) THEN "session expired"
  ELSE IF MapExists(r.UsersByIP, ip) /\ r.usr[r.UsersByIP[ip]].ID # r.usr[r.UsersBySessionID[cookie]].ID
    THEN "invalid user"
  ELSE ""

\* HandleJoinLobby, lines 401-449: the lobby is looked up by its code; a user
\* of the address who has a session in the lobby and a live stream keeps the
\* request out
HandleJoinLobbyCheck(ip, cookie, name, code, streaming) ==
  /\ Served
  /\ Cardinality(reg.req) < MaxReqs
  /\ IF SessionRefusal(reg, cookie, ip) # ""
       THEN /\ reg' = reg
            /\ resp' = Resp("join", SessionRefusal(reg, cookie, ip))
     ELSE IF ~MapExists(reg.Lobbies, code)
       THEN /\ reg' = reg
            /\ resp' = Resp("join", "invalid lobby")
     ELSE IF /\ MapExists(reg.UsersByIP, ip)
             /\ reg.usr[reg.UsersByIP[ip]].SessionID \in reg.lob[reg.Lobbies[code]].UsersBySession
             /\ streaming
       THEN /\ reg' = reg
            /\ resp' = Resp("join", "multiple devices")
     ELSE /\ reg' = [reg EXCEPT !.req = @ \cup
                      {[kind |-> "join", pc |-> "clean", ip |-> ip, cookie |-> cookie,
                        name |-> name, user |-> None, lobby |-> reg.Lobbies[code]]}]
          /\ resp' = NoResp
  /\ RegFrame

\* Lobby.Touch on the lobby object k
RegTouch(r, k) == [r EXCEPT !.lob[k].ExpiresAt = now + ExpiryWindow]

\* HandleJoinLobby, lines 454-467: lobby.AddUser(user), the cookie, lobby.Touch()
HandleJoinLobbyAddUser(q) ==
  /\ q \in reg.req /\ q.pc = "add" /\ q.kind = "join"
  /\ reg' = [RegTouch(RegAddUser(reg, q.lobby, q.user), q.lobby) EXCEPT !.req = @ \ {q}]
  /\ resp' = Resp("join", IF q.ip = None THEN "invalid host" ELSE "see other")
  /\ calls' = calls
  /\ RegFrame

\* HandleHeartbeat for the request of a session from an address
HandleHeartbeatBy(cookie, ip) ==
  /\ Served
  /\ cookie # None
  /\ IF SessionRefusal(reg, cookie, ip) # ""
       THEN /\ reg' = reg
            /\ resp' = Resp("heartbeat", SessionRefusal(reg, cookie, ip))
       ELSE /\ reg' = [reg EXCEPT !.usr[reg.UsersBySessionID[cookie]].LastActivity = now]
            /\ resp' = Resp("heartbeat", "no content")
  /\ RegFrame

\* the users CleanupUsers finds timed out: it looks through UsersByIP
RegTimedOut(r) ==
  {u \in {r.UsersByIP[i] : i \in DOMAIN r.UsersByIP} :
     now - r.usr[u].LastActivity > IdleTimeout}

\* LobbyManager.CleanupUsers: every registered lobby loses the members that
\* have the id or the address of a timed-out user, the manager's maps lose
\* the user's session token and address
RegCleanupUsers(r) ==
  LET dead == RegTimedOut(r)
      ips  == {r.usr[u].IP : u \in dead}
      live == {r.Lobbies[c] : c \in DOMAIN r.Lobbies}
  IN  [r EXCEPT
        !.lob = [k \in DOMAIN @ |->
                   IF k \in live
                     THEN [@[k] EXCEPT !.Users = {x \in @ : x \notin dead /\ r.usr[x].IP \notin ips}]
                     ELSE @[k]],
        !.UsersBySessionID = [s \in (DOMAIN @) \ {r.usr[u].SessionID : u \in dead} |-> @[s]],
        !.UsersByIP = [i \in (DOMAIN @) \ ips |-> @[i]]]

\* the first firing of userCleanupTicker at which CleanupUsers finds a user
\* timed out, if there is a user: the firings before it change nothing and are
\* no steps of the model
RegSweepDeadline(r) ==
  IF DOMAIN r.UsersByIP = {} THEN Stopped
  ELSE TickerAt(r.userCleanupTicker, UserCleanupPeriod,
                Min({r.usr[r.UsersByIP[i]].LastActivity : i \in DOMAIN r.UsersByIP})
                  + IdleTimeout + 1)

\* LobbyManager.timerMinder, case <-m.userCleanupTicker.C: go m.CleanupUsers()
ManagerCleanupUsers ==
  /\ Due(RegSweepDeadline(reg))
  /\ reg' = [RegCleanupUsers(reg) EXCEPT
               !.userCleanupTicker = RegSweepDeadline(reg) + UserCleanupPeriod]
  /\ resp' = NoResp
  /\ calls' = calls
  /\ RegFrame

----------------------------------------------------------------------------
\* SpecFull: create-lobby requests on a manager one lobby short of MaxLobbies
\* (the lobbies' members have left).

\* the manager after MaxLobbies - 1 lobbies were created under the codes
\* 1..MaxLobbies - 1
FullRegistry ==
  [NoReg EXCEPT !.lob = [k \in 1..(MaxLobbies - 1) |-> NewLobbyObj(k, 1)],
                !.Lobbies = [k \in 1..(MaxLobbies - 1) |-> k]]

InitFull ==
  /\ now = 0
  /\ l = LobbyWith("linear", DefaultUserQueueLimit, {1}, <<>>)
  /\ m = ManagerWith({1})
  /\ user = [u \in UserIDs |-> NewUser]
  /\ minder = "running"
  /\ pick = NoPick
  /\ calc = NoCalc
  /\ addReq = {} /\ muteReq = {} /\ skipReq = {} /\ joinReq = {}
  /\ fault = "none"
  /\ resp = NoResp
  /\ calls = 0
  /\ sweep = NoSweep
  /\ reg = FullRegistry

NextFull ==
  \/ \E ip \in IPs : calls < MaxCreates /\ HandleCreateLobbyCheck(ip, None, FormName("al"))
  \/ \E q \in reg.req : HandleClean(q)
  \/ \E q \in reg.req : HandleNewUser(q)
  \/ \E q \in reg.req, id \in LobbyCodes : HandleCreateLobbyNew(q, id)
  \/ \E q \in reg.req : HandleCreateLobbyAdd(q)

SpecFull == InitFull /\ [][NextFull]_vars

\* C22: the registry never holds more than MaxLobbies lobbies, and a create
\* request that finds MaxLobbies lobbies is rejected and creates neither a
\* lobby nor a user.
C22_LobbyLimit ==
  [][ /\ Cardinality(DOMAIN reg'.Lobbies) <= MaxLobbies
      /\ \A ip \in IPs :
           ( /\ HandleCreateLobbyCheck(ip, None, FormName("al"))
             /\ Cardinality(DOMAIN reg.Lobbies) >= MaxLobbies )
           => ( /\ resp' = Resp("create", "lobby limit exceeded")
                /\ reg' = reg ) ]_vars


\* C23: NewLobby never takes a code the registry holds, so a registered lobby
\* is never replaced: every lobby whose timerMinder runs is the one the
\* registry returns for its code.
C23_CodeUnique ==
  [][ /\ \A q \in reg.req, id \in LobbyCodes :
           HandleCreateLobbyNew(q, id) => ~MapExists(reg.Lobbies, id)
      /\ \A k \in 1..Len(reg'.lob) :
           reg'.lob[k].minder = "running" =>
             /\ MapExists(reg'.Lobbies, reg'.lob[k].ID)
             /\ reg'.Lobbies[reg'.lob[k].ID] = k ]_vars


----------------------------------------------------------------------------
\* SpecIdentity: create and join requests, heartbeats and the manager's idle
\* sweep, from the moment address 1 has created the first lobby (code 1).

\* the manager after HandleCreateLobby served address 1
FirstLobby ==
  RegAddUser(RegNewLobby(RegNewUser(NoReg, FormName("al"), 1), 1, 1), 1, 1)

InitIdentity ==
  /\ now = 0
  /\ l = LobbyWith("linear", DefaultUserQueueLimit, {1}, <<>>)
  /\ m = ManagerWith({1})
  /\ user = [u \in UserIDs |-> NewUser]
  /\ minder = "running"
  /\ pick = NoPick
  /\ calc = NoCalc
  /\ addReq = {} /\ muteReq = {} /\ skipReq = {} /\ joinReq = {}
  /\ fault = "none"
  /\ resp = NoResp
  /\ calls = 0
  /\ sweep = NoSweep
  /\ reg = FirstLobby

TickIdentity ==
  PassTime(IdentityStep, {RegSweepDeadline(reg)}, HorizonIdentity)

\* the session cookies a request can carry: none, or one the server has issued
Cookies == {None} \cup (1..Len(reg.usr))

NextIdentity ==
  \/ \E ip \in IPs, cookie \in Cookies :
       calls < MaxCreates /\ HandleCreateLobbyCheck(ip, cookie, FormName("al"))
  \/ \E ip \in IPs, cookie \in Cookies, streaming \in BOOLEAN :
       calls < MaxCreates /\ HandleJoinLobbyCheck(ip, cookie, FormName("al"), 1, streaming)
  \/ \E q \in reg.req : HandleClean(q)
  \/ \E q \in reg.req : HandleNewUser(q)
  \/ \E q \in reg.req, id \in 1..SpareCodes : HandleCreateLobbyNew(q, id)
  \/ \E q \in reg.req : HandleCreateLobbyAdd(q)
  \/ \E q \in reg.req : HandleJoinLobbyAddUser(q)
  \/ \E ip \in IPs, cookie \in Cookies : HandleHeartbeatBy(cookie, ip)
  \/ ManagerCleanupUsers
  \/ TickIdentity

SpecIdentity == InitIdentity /\ [][NextIdentity]_vars

\* the users the manager's maps point to, by address and by session token
RegisteredByIP == {reg.UsersByIP[i] : i \in DOMAIN reg.UsersByIP}

RegisteredBySession == {reg.UsersBySessionID[s] : s \in DOMAIN reg.UsersBySessionID}

\* C24: the by-IP map and the by-session map index the same users, no two
\* registered users have one address, and no two members of a lobby have one
\* address.
C24_OneUserPerIP ==
  /\ RegisteredByIP = RegisteredBySession
  /\ \A u, v \in RegisteredByIP \cup RegisteredBySession :
       reg.usr[u].IP = reg.usr[v].IP => u = v
  /\ \A k \in 1..Len(reg.lob) : \A u, v \in reg.lob[k].Users :
       reg.usr[u].IP = reg.usr[v].IP => u = v

----------------------------------------------------------------------------
\* SpecNames: the display names in one lobby.  Address 1 has created lobby 1
\* as "al"; join requests with the names of FormTexts come from MaxJoiners
\* addresses and are served one after the other, a member leaves when its
\* address joins again.

InitNames == InitIdentity

NextNames ==
  \/ \E ip \in 1..MaxJoiners, t \in FormTexts :
       reg.req = {} /\ HandleJoinLobbyCheck(ip, None, FormName(t), 1, FALSE)
  \/ \E q \in reg.req : HandleClean(q)
  \/ \E q \in reg.req : HandleNewUser(q)
  \/ \E q \in reg.req : HandleJoinLobbyAddUser(q)

SpecNames == InitNames /\ [][NextNames]_vars

\* C25: no two members of a lobby have display names that are equal when the
\* case of the letters is ignored.
C25_NamesUnique ==
  \A k \in 1..Len(reg.lob) : \A u, v \in reg.lob[k].Users :
     ToLower(reg.usr[u].Name) = ToLower(reg.usr[v].Name) => u = v


\* a step of CleanupUsers: the manager's ticker is armed again
SweepSteps == reg'.userCleanupTicker # reg.userCleanupTicker

\* the users r knows: registered by address or by session, or members of a
\* registered lobby
RegKnown(r) ==
  {r.UsersByIP[i] : i \in DOMAIN r.UsersByIP}
    \cup {r.UsersBySessionID[s] : s \in DOMAIN r.UsersBySessionID}
    \cup UNION {r.lob[r.Lobbies[c]].Users : c \in DOMAIN r.Lobbies}

\* C26: a sweep for idle users removes every registered user whose last
\* activity is more than 35 seconds old from its lobby and from both identity
\* maps, and removes no user whose last activity is at most 35 seconds old.
C26_SweepExact ==
  [][ SweepSteps =>
        \A u \in RegisteredByIP \cup RegisteredBySession :
          IF now - reg.usr[u].LastActivity > IdleTimeout
            THEN u \notin RegKnown(reg')
            ELSE /\ u \in RegisteredByIP => u \in {reg'.UsersByIP[i] : i \in DOMAIN reg'.UsersByIP}
                 /\ u \in RegisteredBySession =>
                      u \in {reg'.UsersBySessionID[s] : s \in DOMAIN reg'.UsersBySessionID}
                 /\ \A k \in 1..Len(reg.lob) :
                      u \in reg.lob[k].Users => u \in reg'.lob[k].Users ]_vars


\* C27: once a lobby is destroyed (its timerMinder has left its loop and run
\* its last statements) none of the lobby's six timers and tickers is armed.
C27_TimersStopped ==
  minder = "stopped" =>
    /\ l.nextTimer = Stopped
    /\ l.voteSkipTimer = Stopped
    /\ l.voteMuteTimer = Stopped
    /\ l.expiryTimer = Stopped
    /\ l.muteExpiryTicker = Stopped
    /\ l.videoCleanupTicker = Stopped


\* C28: a lobby that has been removed from the registry has no members.
C28_NoMemberOfDestroyed ==
  1 \notin m.Lobbies => l.Users = {}


\* C29: no message is broadcast to the members while the lobby's mutex is
\* held: every message of a step was sent with the mutex free.
C29_NoSendUnderLock ==
  \A i \in DOMAIN l.sent : ~l.sent[i].locked


\* C30: no reachable state is a deadlock on the lobby's mutex: the mutex is
\* never left held by an execution that has ended, with the request handlers
\* and the timer callbacks of the lobby waiting for it for ever.
C30_NoDeadlock ==
  fault # "wedged"


\* a step taken by another execution while the PickNextVideo that timerMinder
\* started is between its two halves
DuringTimerPick == pick.pc = "set" /\ pick'.pc = "set"

\* C31: while an execution of PickNextVideo is in progress no other execution
\* writes the pending queue, CurrentVideo or the skip vote: these are written
\* under the lobby mutex only, on the completion-timer path too.
C31_AdvanceExclusive ==
  [][ DuringTimerPick =>
        /\ l'.Videos = l.Videos
        /\ l'.CurrentVideo = l.CurrentVideo
        /\ l'.VoteSkip = l.VoteSkip ]_vars


----------------------------------------------------------------------------
\* SpecPlay: the steps of SpecSkip on a lobby in linear mode to which the
\* videos 1, 2 and 3 were added in this order: 1 is playing, 2 and 3 wait.

InitPlay ==
  /\ now = 0
  /\ \E n \in 1..MaxUsers :
       /\ l = LobbyWith("linear", DefaultUserQueueLimit, 1..n, <<1, 2, 3>>)
       /\ InitRest(1..n)

SpecPlay == InitPlay /\ [][NextSkip]_vars

\* C32: in linear mode the videos become CurrentVideo in the order in which
\* they were appended (here, the order of their ids): a step that replaces one
\* playing video by another never goes back to a video appended earlier, and
\* no entry leaves the queue except to become CurrentVideo.
C32_PlayedInOrder ==
  [][ /\ (l.CurrentVideo # NoVideo /\ l'.CurrentVideo # NoVideo) =>
           l'.CurrentVideo.id >= l.CurrentVideo.id
      /\ \A i \in 1..Len(l.Videos) :
           (\A j \in 1..Len(l'.Videos) : l'.Videos[j].id # l.Videos[i].id) =>
              \/ l'.CurrentVideo.id = l.Videos[i].id
              \/ pick'.next.id = l.Videos[i].id ]_vars


\* C33: whenever no operation on the lobby is in progress, a queue that is
\* not empty has a video playing before it, with the completion timer armed.
C33_QueueImpliesPlaying ==
  (~Midway /\ ~AtLock /\ addReq = {} /\ Len(l.Videos) > 0) =>
     (l.CurrentVideo # NoVideo /\ l.nextTimer # Stopped)


\* C34: an active skip vote is a vote on the video that is playing: with no
\* PickNextVideo in progress, VoteSkip.Active implies that CurrentVideo is
\* set and that its id is VoteSkip.VideoID.
C34_VoteOnCurrent ==
  (pick.pc = "idle" /\ l.VoteSkip.Active) =>
     (l.CurrentVideo # NoVideo /\ l.VoteSkip.VideoID = l.CurrentVideo.id)


\* C35: a skip vote that fails leaves playback as it was: CurrentVideo (its
\* WasVoted mark apart), the start of play, the queue, the play history and
\* the completion timer are unchanged; the video is marked WasVoted and the
\* vote is cleared.
C35_FailedSkipFrame ==
  [][ (SkipVoteResolves /\ Sent(l', "vote_skip_end", "failed")) =>
        /\ l'.CurrentVideo = [l.CurrentVideo EXCEPT !.WasVoted = TRUE]
        /\ l'.VideoStart = l.VideoStart
        /\ l'.Videos = l.Videos
        /\ l'.PlayedVideos = l.PlayedVideos
        /\ l'.nextTimer = l.nextTimer
        /\ l'.VoteSkip = NoVoteSkip ]_vars

\* C35 witness: a skip vote on video 1 has just failed while video 2 waits:
\* video 1 plays on, marked, with its timer armed
C35_Witness ==
  /\ Sent(l, "vote_skip_end", "failed")
  /\ l.CurrentVideo.id = 1 /\ l.CurrentVideo.WasVoted
  /\ Len(l.Videos) = 1
  /\ l.nextTimer = DurationOf(1)
  /\ l.VoteSkip = NoVoteSkip


\* a step in which StartVoteMute has written its vote
MuteVoteStarts ==
  \E q \in muteReq : q.pc = "start" /\ [q EXCEPT !.pc = "announce"] \in muteReq'

\* a step in which StartVoteSkip has written its vote
SkipVoteStarts ==
  skipReq' # skipReq /\ resp' = Resp("skip_start", "created")

\* C36: a vote that is not active is blank (no target, no start time, no
\* yes-votes and no no-votes), so every resolution leaves it blank; a vote
\* that has just been started holds the yes-vote of its initiator and no
\* other vote.
C36_VotesCleared ==
  [][ /\ ~l'.VoteSkip.Active => l'.VoteSkip = NoVoteSkip
      /\ ~l'.VoteMute.Active => l'.VoteMute = NoVoteMute
      /\ SkipVoteStarts =>
           (Cardinality(l'.VoteSkip.YesVotes) = 1 /\ l'.VoteSkip.NoVotes = {})
      /\ MuteVoteStarts =>
           (l'.VoteMute.YesVotes = {l'.VoteMute.Initiator} /\ l'.VoteMute.NoVotes = {}) ]_vars


\* C37: the call of CalcVoteSkipResult or CalcVoteMuteResult that a vote
\* timer's firing started resolves a vote only when VoteTimeout seconds have
\* passed since that vote started; for a vote resolved before, it is a no-op.
C37_TimeoutOwnVote ==
  [][ /\ (SkipVoteResolves /\ RunCalcVoteSkipResult("timer")) =>
           now >= l.VoteSkip.StartedAt + VoteTimeout
      /\ (MuteVoteResolves /\ RunCalcVoteMuteResult("timer")) =>
           now >= l.VoteMute.StartedAt + VoteTimeout ]_vars


----------------------------------------------------------------------------
\* SpecAddr: create and join requests whose form and whose remote address the
\* handlers check, on a manager one lobby short of MaxLobbies.  A request's
\* RemoteAddr is an address of IPs, or empty (None): what a peer without a
\* TCP address leaves there.

\* shared.ParseHost: net.SplitHostPort, then net.ParseIP; for a host that is
\* neither it returns "" and an error
ParseHost(host) ==
  IF host \in IPs THEN [ip |-> host, err |-> FALSE]
                  ELSE [ip |-> None, err |-> TRUE]

\* HandleCreateLobby, lines 302-335: the name test and the capacity test
\* return; the branch of ParseHost's error writes the response and does not
\* return, the handler goes on with ip = ""
HandleCreateLobbyParse(addr, cookie, name) ==
  /\ Served
  /\ Cardinality(reg.req) < MaxReqs
  /\ IF name.text = ""
       THEN /\ reg' = reg
            /\ resp' = Resp("create", "invalid user name")
     ELSE IF Cardinality(DOMAIN reg.Lobbies) >= MaxLobbies
       THEN /\ reg' = reg
            /\ resp' = Resp("create", "lobby limit exceeded")
     ELSE /\ reg' = [reg EXCEPT !.req = @ \cup
                      {[kind |-> "create", pc |-> "clean", ip |-> ParseHost(addr).ip,
                        cookie |-> cookie, name |-> name, user |-> None, lobby |-> None]}]
          /\ resp' = IF ParseHost(addr).err THEN Resp("create", "invalid host") ELSE NoResp
  /\ RegFrame

\* InjectSession, lines 95-166, and HandleJoinLobby, lines 396-449: the
\* middleware's and the handler's branch of ParseHost's error write the
\* response and do not return; what is written after it does not replace it
HandleJoinLobbyParse(addr, cookie, name, code, streaming) ==
  LET ip == ParseHost(addr).ip
      err == ParseHost(addr).err
  IN  /\ Served
      /\ Cardinality(reg.req) < MaxReqs
      /\ IF SessionRefusal(reg, cookie, ip) # ""
           THEN /\ reg' = reg
                /\ resp' = Resp("join", IF err /\ SessionRefusal(reg, cookie, ip) = "invalid user"
                                          THEN "invalid host"
                                          ELSE SessionRefusal(reg, cookie, ip))
         ELSE IF ~MapExists(reg.Lobbies, code)
           THEN /\ reg' = reg
                /\ resp' = Resp("join", IF err /\ cookie # None THEN "invalid host"
                                                               ELSE "invalid lobby")
         ELSE IF name.text = ""
           THEN /\ reg' = reg
                /\ resp' = Resp("join", IF err /\ cookie # None THEN "invalid host"
                                                               ELSE "invalid user name")
         ELSE IF /\ MapExists(reg.UsersByIP, ip)
                 /\ reg.usr[reg.UsersByIP[ip]].SessionID \in reg.lob[reg.Lobbies[code]].UsersBySession
                 /\ streaming
           THEN /\ reg' = reg
                /\ resp' = Resp("join", IF err THEN "invalid host" ELSE "multiple devices")
         ELSE /\ reg' = [reg EXCEPT !.req = @ \cup
                          {[kind |-> "join", pc |-> "clean", ip |-> ip, cookie |-> cookie,
                            name |-> name, user |-> None, lobby |-> reg.Lobbies[code]]}]
              /\ resp' = IF err THEN Resp("join", "invalid host") ELSE NoResp
      /\ RegFrame

NextAddr ==
  \/ \E addr \in IPs \cup {None}, cookie \in Cookies, t \in FormTexts \cup {""} :
       calls < MaxCreates /\ HandleCreateLobbyParse(addr, cookie, FormName(t))
  \/ \E addr \in IPs \cup {None}, cookie \in Cookies, t \in FormTexts \cup {""},
        streaming \in BOOLEAN :
       calls < MaxCreates /\ HandleJoinLobbyParse(addr, cookie, FormName(t), 1, streaming)
  \/ \E q \in reg.req : HandleClean(q)
  \/ \E q \in reg.req : HandleNewUser(q)
  \/ \E q \in reg.req : HandleCreateLobbyNew(q, MaxLobbies)
  \/ \E q \in reg.req : HandleCreateLobbyAdd(q)
  \/ \E q \in reg.req : HandleJoinLobbyAddUser(q)

SpecAddr == InitFull /\ [][NextAddr]_vars

\* the responses that report an error of the request
ErrorAnswers ==
  {"invalid user name", "lobby limit exceeded", "invalid host", "multiple devices"}

\* the step registers no user, adds no member and creates no lobby
RegSame ==
  /\ reg'.usr = reg.usr
  /\ reg'.lob = reg.lob
  /\ reg'.Lobbies = reg.Lobbies
  /\ reg'.UsersByIP = reg.UsersByIP
  /\ reg'.UsersBySessionID = reg.UsersBySessionID

\* C38: a create or join request answered with an error (invalid name, lobby
\* limit exceeded, unparsable address, multiple devices) changes nothing: the
\* step that writes the error, and every step of a request whose error has
\* been written, registers no user, adds no member and creates no lobby.
C38_ErrorNoChange ==
  [][ /\ resp'.status \in ErrorAnswers => RegSame
      /\ \A q \in reg.req : (q.ip = None /\ q \notin reg'.req) => RegSame ]_vars


\* C39: every user id in the yes or the no set of an active skip vote or mute
\* vote is the id of a current member of the lobby, so the votes counted are
\* never more than the members the quorum is computed from.
C39_VotersAreMembers ==
  /\ l.VoteSkip.Active =>
       /\ (l.VoteSkip.YesVotes \cup l.VoteSkip.NoVotes) \subseteq l.Users
       /\ Cardinality(l.VoteSkip.YesVotes) + Cardinality(l.VoteSkip.NoVotes) <= Cardinality(l.Users)
  /\ l.VoteMute.Active =>
       /\ (l.VoteMute.YesVotes \cup l.VoteMute.NoVotes) \subseteq l.Users
       /\ Cardinality(l.VoteMute.YesVotes) + Cardinality(l.VoteMute.NoVotes) <= Cardinality(l.Users)


\* C40: once the lobby has left the registry, none of its former members is
\* registered in the manager's by-IP or by-session map; and a user removed
\* from the lobby's Users is in its UsersBySession no more.
C40_IndexesCleared ==
  [][ /\ 1 \notin m'.Lobbies => (m'.UsersByIP = {} /\ m'.UsersBySessionID = {})
      /\ \A u \in l.Users \ l'.Users : u \notin l'.UsersBySession ]_vars

====
